---------------------------- MODULE Spec2Model ----------------------------
(***************************************************************************)
(* The audit / refinement control loop of the risk copilot, in its three   *)
(* variants:                                                               *)
(*   "manual"  agent_logic.py      (hand written while loop)               *)
(*   "lg"      agent_logic_lg.py   (state graph + skills.py)               *)
(*   "gov"     agent_logic_gov.py  (tool calling + human approval)         *)
(*                                                                         *)
(* Ratios are fixed-point integers in units of 1/10000 (0.80 = 8000), so   *)
(* that max_allowed * 0.95 is exact.  An Optional value is a set with at   *)
(* most one element ({} is None).  A string that the code only shows to    *)
(* the user is a record [kind, shown].                                     *)
(***************************************************************************)
EXTENDS Integers, Sequences, FiniteSets, TLC

VARIABLES
    variant,      \* which implementation serves this turn
    auditor,      \* "real": the code's auditor; "always_fail": the test double
                  \* (the governed graph has no auditor to replace)
    pc,           \* manual: "loop" | "done"; graphs: next node | "END";
                  \* "crashed" once an exception has left run_agent
    state,        \* the AgentState of the turn
    step_count,   \* agent_logic.run_agent: step_count
    visited,      \* history: node handlers executed, in order
    raised,       \* an exception left a node handler and run_agent
    llm_log,      \* history: what each chat-completion call did, in order
    run_result,   \* what run_agent returned (valid when pc is terminal)
    resolutions,  \* history: what each process_approval call returned
    peer,         \* the locals of a second turn in flight, while this one runs
    _compiled_graph, \* the module globals of agent_logic_lg and agent_logic_gov
    session_state \* st.session_state of the governed console: its gov_* keys

vars == <<variant, auditor, pc, state, step_count, visited, raised, llm_log,
          run_result, resolutions, peer, _compiled_graph, session_state>>

-----------------------------------------------------------------------------
(* Bounds of the model *)

\* process_approval calls made on one pending state
MaxResolutions == 2

\* how many percentages above 100% a request may name (150%, 200%, ...)
MaxOverPct == 1

-----------------------------------------------------------------------------
(* Optional values and Python truthiness *)

None == {}
Some(v) == {v}
TheVal(o) == CHOOSE v \in o : TRUE
\* dict.get(key, default)
Get(o, d) == IF o = {} THEN d ELSE TheVal(o)
\* bool(x) of an Optional number: None and 0 are falsy
Truthy(o) == o # {} /\ o # {0}
\* a or b
Or(o, d) == IF Truthy(o) THEN TheVal(o) ELSE d

\* A number used with a "%" format of zero decimals (f"{x:.0%}"): the value
\* in whole percent, halves rounded to even.
Pct0(v) ==
    LET q == v \div 100
        r == v % 100
    IN  IF r < 50 THEN q
        ELSE IF r > 50 THEN q + 1
        ELSE IF q % 2 = 0 THEN q ELSE q + 1


-----------------------------------------------------------------------------
(* Inputs: the user's text and the risk context *)

\* A user text, as far as the extractors read it:
\*   kws  the keywords it contains (lower-cased substrings),
\*   pct  the integer of its first "<digits> %",
\*   bp   the integer of its first "<digits> bp",
\*   eq   the signed integer of the first "<digits> %" after the word "equity".
Text(kws, pct, bp, eq) == [kws |-> kws, pct |-> pct, bp |-> bp, eq |-> eq]

PctValues == {0, 50, 76, 80, 81, 85} \cup {100 + 50 * k : k \in 1..MaxOverPct}

HedgeKws == {{"hedge"}, {"hedging"}, {"hedge", "hedge ratio"},
             {"hedge", "stress"}, {"hedging", "limit"}}

\* "I want to increase our duration hedge ratio to 85%"
ScenarioA == Text({"hedge", "hedge ratio"}, Some(85), None, None)
\* "raise the fx hedge to 85%": a hedge request that names its hedge type
FxRequest == Text({"hedge", "fx"}, Some(85), None, None)

Texts ==
    {Text(k, p, None, None) :
        k \in HedgeKws, p \in {None} \cup {Some(n) : n \in PctValues}}
    \cup {Text(k, None, b, None) :
        k \in {{"stress"}, {"scenario"}, {"what if"}}, b \in {None, Some(0), Some(200)}}
    \cup {Text({"shock"}, Some(e), None, Some(e)) : e \in {0, 15, 20}}
    \cup {Text({"crisis"}, Some(20), Some(50), Some(0 - 20))}
    \cup {Text(k, None, None, None) :
        k \in {{"limit"}, {"breach"}, {"warning"}, {"compliance"},
               {"allocation"}, {}}}
    \cup {FxRequest}

\* The risk context, as the set of keys it holds.
CtxKeys == {"total_assets", "total_liabilities", "funded_status", "surplus",
            "asset_dur", "liability_dur", "fx_pct", "comp_df", "limits_df"}
Contexts == {CtxKeys, CtxKeys \ {"liability_dur"}, CtxKeys \ {"limits_df"}}

\* any(kw in query_lower for kw in kwlist)
AnyKw(text, kwlist) == text.kws \cap kwlist # {}

-----------------------------------------------------------------------------
(* Values shown to the user, trace entries *)

\* a response text: what it is and the percentages printed in it
Resp(kind, shown) == [kind |-> kind, shown |-> shown]
NoResponse == Resp("None", <<>>)
\* bool(final_response): None and "" are falsy
RespTruthy(r) == r.kind \notin {"None", "empty"}

\* A handler that lets an exception escape yields Raise(class) in place of
\* the next state.
Raise(exception) == [exception |-> exception]
IsRaise(out) == DOMAIN out = {"exception"}

\* "except Exception": the clause catches every error class the calls raise
\* (API errors, KeyError, TypeError, AttributeError, JSONDecodeError)
ExceptException(exception) ==
    exception \in {"APIError", "KeyError", "TypeError", "AttributeError",
                   "JSONDecodeError"}

\* ThinkingStep of agent_logic / agent_logic_lg (node, final status)
Step(node, status) == [node |-> node, status |-> status]

\* what the chat-completion call can do
LLMOutcomes == {"text", "empty", "null", "raise"}

\* an entry of llm_log: the call RESPOND made and what it did
RespondCall(outcome) == [node |-> "respond", kind |-> outcome]

-----------------------------------------------------------------------------
(* agent_logic.py: the manual loop *)

max_hedge_ratio == 8000
max_steps == 10
max_iterations == 3
\* recommendation = max_ratio * 0.95
safety_factor_pct == 95

EmptyParams ==
    [hedge_ratio |-> None, refined |-> FALSE, rate_bp |-> None, equity_pct |-> None]
NoCalc == [type |-> "None", proposed_ratio |-> None]
NoAudit ==
    [status |-> "None", proposed |-> None, max_allowed |-> None,
     recommendation |-> None]

AgentState(user_query, ctx) ==
    [user_query |-> user_query, ctx |-> ctx, thinking_steps |-> <<>>,
     intent |-> "None", params |-> EmptyParams, calculation_result |-> NoCalc,
     audit_result |-> NoAudit, final_response |-> NoResponse,
     current_node |-> "analyze", iteration |-> 0,
     max_iterations |-> max_iterations]

_extract_percentage(text) ==
    IF text.pct # None THEN Some(TheVal(text.pct) * 100) ELSE None

_extract_bp(text) == text.bp

_extract_equity_shock(text) ==
    IF text.eq # None
    THEN LET val == TheVal(text.eq)
         IN  Some(IF val < 0 THEN val * 100 ELSE 0 - val * 100)
    ELSE None

_node_analyze(s) ==
    LET q == s.user_query
        intent ==
            IF AnyKw(q, {"hedge", "hedging", "adjust hedge", "hedge ratio"})
            THEN "hedge"
            ELSE IF AnyKw(q, {"stress", "scenario", "shock", "crisis", "what if"})
            THEN "stress"
            ELSE IF AnyKw(q, {"limit", "breach", "warning", "compliance"})
            THEN "limits"
            ELSE "query"
        params ==
            IF intent = "hedge"
            THEN [EmptyParams EXCEPT
                    !.hedge_ratio = Some(Or(_extract_percentage(q), 7000))]
            ELSE IF intent = "stress"
            THEN [EmptyParams EXCEPT
                    !.rate_bp = Some(Or(_extract_bp(q), 100)),
                    !.equity_pct = Some(Or(_extract_equity_shock(q), 0 - 1500))]
            ELSE EmptyParams
    IN  [s EXCEPT
            !.thinking_steps = Append(@, Step("Analyze", "success")),
            !.intent = intent,
            !.params = params,
            !.current_node =
                IF intent \in {"hedge", "stress"} THEN "calculate" ELSE "respond"]

\* _calculate_stress reads these keys; a missing one raises KeyError
StressKeys == {"total_assets", "total_liabilities", "funded_status",
               "asset_dur", "liability_dur"}

_calculate_stress(ctx, params) ==
    IF StressKeys \subseteq ctx
    THEN [type |-> "stress", proposed_ratio |-> None]
    ELSE Raise("KeyError")

\* a CALCULATE that keeps its result in the context it was given
_node_calculate_caching(s) ==
    LET result ==
            IF s.intent = "stress" THEN _calculate_stress(s.ctx, s.params)
            ELSE [type |-> s.intent,
                  proposed_ratio |-> Some(Get(s.params.hedge_ratio, 7000))]
    IN  IF ~IsRaise(result)
        THEN [s EXCEPT
                !.ctx = @ \cup {"last_calculation"},
                !.thinking_steps = Append(@, Step("Calculate", "success")),
                !.calculation_result = result,
                !.current_node = IF s.intent = "hedge" THEN "audit" ELSE "respond"]
        ELSE [s EXCEPT
                !.thinking_steps = Append(@, Step("Calculate", "error")),
                !.current_node = "respond"]

_node_calculate(s) ==
    LET result ==
            IF s.intent = "stress" THEN _calculate_stress(s.ctx, s.params)
            ELSE IF s.intent = "hedge"
            THEN [type |-> "hedge",
                  proposed_ratio |-> Some(Get(s.params.hedge_ratio, 7000))]
            ELSE [type |-> "query", proposed_ratio |-> None]
    IN  IF ~IsRaise(result)
        THEN [s EXCEPT
                !.thinking_steps = Append(@, Step("Calculate", "success")),
                !.calculation_result = result,
                !.current_node = IF s.intent = "hedge" THEN "audit" ELSE "respond"]
        ELSE IF ExceptException(result.exception)
        THEN [s EXCEPT
                !.thinking_steps = Append(@, Step("Calculate", "error")),
                !.current_node = "respond"]
        ELSE result

\* The auditor of the termination test: FAIL, with a recommendation, on
\* every call.
PathologicalAuditor(proposed, max_ratio) ==
    [status |-> "FAIL", proposed |-> Some(proposed), max_allowed |-> Some(max_ratio),
     recommendation |-> Some((max_ratio * safety_factor_pct) \div 100)]

\* a fault: the comparison tolerates five points above the limit
manual_audit_lax(proposed_ratio, max_ratio) ==
    IF proposed_ratio <= max_ratio + 500
    THEN [status |-> "PASS", proposed |-> Some(proposed_ratio),
          max_allowed |-> Some(max_ratio), recommendation |-> None]
    ELSE [status |-> "FAIL", proposed |-> Some(proposed_ratio),
          max_allowed |-> Some(max_ratio),
          recommendation |-> Some((max_ratio * safety_factor_pct) \div 100)]

\* a fault: the recommendation of a FAIL is the ratio that was proposed
manual_audit_echo(proposed_ratio, max_ratio) ==
    IF proposed_ratio <= max_ratio
    THEN [status |-> "PASS", proposed |-> Some(proposed_ratio),
          max_allowed |-> Some(max_ratio), recommendation |-> None]
    ELSE [status |-> "FAIL", proposed |-> Some(proposed_ratio),
          max_allowed |-> Some(max_ratio),
          recommendation |-> Some(proposed_ratio)]

\* the audit_result _node_audit builds
manual_audit(proposed_ratio, max_ratio) ==
    IF proposed_ratio <= max_ratio
    THEN [status |-> "PASS", proposed |-> Some(proposed_ratio),
          max_allowed |-> Some(max_ratio), recommendation |-> None]
    ELSE [status |-> "FAIL", proposed |-> Some(proposed_ratio),
          max_allowed |-> Some(max_ratio),
          recommendation |-> Some((max_ratio * safety_factor_pct) \div 100)]

\* a fault: a FAIL goes to REFINE whatever the iteration counter says
_node_audit_unbounded(s, aud) ==
    LET audit_result ==
            IF aud = "real"
            THEN manual_audit(Get(s.params.hedge_ratio, 0), max_hedge_ratio)
            ELSE PathologicalAuditor(Get(s.params.hedge_ratio, 0), max_hedge_ratio)
    IN  [s EXCEPT
            !.thinking_steps =
                Append(@, Step("Audit", IF audit_result.status = "PASS"
                                        THEN "success" ELSE "warning")),
            !.audit_result = audit_result,
            !.current_node =
                IF audit_result.status = "PASS" THEN "respond" ELSE "refine"]

_node_audit(s, aud) ==
    LET proposed_ratio == Get(s.params.hedge_ratio, 0)
        max_ratio == max_hedge_ratio
        audit_result ==
            IF aud = "real" THEN manual_audit(proposed_ratio, max_ratio)
            ELSE PathologicalAuditor(proposed_ratio, max_ratio)
    IN  IF audit_result.status = "PASS"
        THEN [s EXCEPT
                !.thinking_steps = Append(@, Step("Audit", "success")),
                !.audit_result = audit_result,
                !.current_node = "respond"]
        ELSE [s EXCEPT
                !.thinking_steps = Append(@, Step("Audit", "warning")),
                !.audit_result = audit_result,
                !.current_node =
                    IF s.iteration < s.max_iterations THEN "refine" ELSE "respond"]

\* a fault: the refined value goes to RESPOND without a second audit
_node_refine_unchecked(s) ==
    [s EXCEPT
        !.thinking_steps = Append(@, Step("Refine", "success")),
        !.iteration = @ + 1,
        !.params.hedge_ratio = s.audit_result.recommendation,
        !.params.refined = TRUE,
        !.current_node = "respond"]

_node_refine(s) ==
    IF s.audit_result.status # "None" /\ Truthy(s.audit_result.recommendation)
    THEN [s EXCEPT
            !.thinking_steps = Append(@, Step("Refine", "success")),
            !.iteration = @ + 1,
            !.params.hedge_ratio = s.audit_result.recommendation,
            !.params.refined = TRUE,
            !.current_node = "audit"]
    ELSE [s EXCEPT
            !.thinking_steps = Append(@, Step("Refine", "error")),
            !.iteration = @ + 1,
            !.current_node = "respond"]

\* response.choices[0].message.content, or the exception of the call
_call_llm(outcome) ==
    CASE outcome = "text" -> Resp("llm", <<>>)
      [] outcome = "empty" -> Resp("empty", <<>>)
      [] outcome = "null" -> Resp("None", <<>>)
      [] outcome = "raise" -> Raise("APIError")

\* a fault: the call is made outside the try block
_node_respond_uncaught(s, outcome) ==
    LET response == _call_llm(outcome)
    IN  IF ~IsRaise(response)
        THEN [s EXCEPT
                !.thinking_steps = Append(@, Step("Respond", "success")),
                !.final_response = response]
        ELSE response


_node_respond(s, outcome) ==
    LET response == _call_llm(outcome)
    IN  IF ~IsRaise(response)
        THEN [s EXCEPT
                !.thinking_steps = Append(@, Step("Respond", "success")),
                !.final_response = response]
        ELSE IF ExceptException(response.exception)
        THEN [s EXCEPT
                !.thinking_steps = Append(@, Step("Respond", "error")),
                !.final_response = Resp("apology", <<>>)]
        ELSE response

\* what run_agent returns
Returned(response, steps, requires_approval, approval_context) ==
    [response |-> response, steps |-> steps,
     requires_approval |-> requires_approval,
     approval_context |-> approval_context]
NoContext == [proposed_ratio |-> None, max_allowed |-> None, recommendation |-> None]
NotReturned == Returned(NoResponse, <<>>, FALSE, NoContext)

\* the loop's break condition
ManualFinished(s) == s.current_node = "respond" /\ RespTruthy(s.final_response)

\* a fault: a loop without the step budget, left only by the break
ManualLoop_unbudgeted(node, out, llm) ==
    /\ variant = "manual"
    /\ pc = "loop"
    /\ state.current_node = node
    /\ visited' = Append(visited, node)
    /\ llm_log' = llm_log \o llm
    /\ IF IsRaise(out)
       THEN /\ pc' = "crashed"
            /\ raised' = TRUE
            /\ UNCHANGED <<state, step_count, run_result>>
       ELSE /\ state' = out
            /\ step_count' = step_count + 1
            /\ pc' = IF ManualFinished(out) THEN "done" ELSE "loop"
            /\ run_result' =
                IF ManualFinished(out)
                THEN Returned(out.final_response, out.thinking_steps, FALSE,
                              NoContext)
                ELSE run_result
            /\ UNCHANGED raised
    /\ UNCHANGED <<variant, auditor, resolutions, peer, _compiled_graph,
                   session_state>>

\* One pass of run_agent's while loop around the handler whose outcome is out.
\* An exception that leaves the handler leaves run_agent too.
ManualLoop(node, out, llm) ==
    /\ variant = "manual"
    /\ pc = "loop"
    /\ step_count < max_steps
    /\ state.current_node = node
    /\ visited' = Append(visited, node)
    /\ llm_log' = llm_log \o llm
    /\ IF IsRaise(out)
       THEN /\ pc' = "crashed"
            /\ raised' = TRUE
            /\ UNCHANGED <<state, step_count, run_result>>
       ELSE /\ state' = out
            /\ step_count' = step_count + 1
            /\ pc' = IF ManualFinished(out) \/ step_count + 1 >= max_steps
                     THEN "done" ELSE "loop"
            /\ run_result' =
                IF ManualFinished(out) \/ step_count + 1 >= max_steps
                THEN Returned(IF RespTruthy(out.final_response)
                              THEN out.final_response
                              ELSE Resp("unable", <<>>),
                              out.thinking_steps, FALSE, NoContext)
                ELSE run_result
            /\ UNCHANGED raised
    /\ UNCHANGED <<variant, auditor, resolutions, peer, _compiled_graph,
                   session_state>>

ManualAnalyze == ManualLoop("analyze", _node_analyze(state), <<>>)
ManualCalculate == ManualLoop("calculate", _node_calculate(state), <<>>)
ManualAudit == ManualLoop("audit", _node_audit(state, auditor), <<>>)
ManualRefine == ManualLoop("refine", _node_refine(state), <<>>)
ManualRespond ==
    \E outcome \in LLMOutcomes :
        ManualLoop("respond", _node_respond(state, outcome),
                   <<RespondCall(outcome)>>)

-----------------------------------------------------------------------------
(* skills.py: the calculators the graph variant calls *)

\* LIMITS[hedge_type]["max_hedge_ratio"], unknown types read the duration row
LIMITS(hedge_type) ==
    CASE hedge_type = "duration" -> 8000
      [] hedge_type = "fx" -> 9000
      [] hedge_type = "equity" -> 5000
      [] OTHER -> 8000

\* a fault: the limit itself is rejected (exclusive boundary)
check_hedge_compliance_strict(proposed_hedge_ratio, hedge_type) ==
    IF proposed_hedge_ratio < LIMITS(hedge_type)
    THEN [status |-> "PASS", proposed_ratio |-> Some(proposed_hedge_ratio),
          max_allowed |-> Some(LIMITS(hedge_type)), recommendation |-> None]
    ELSE [status |-> "FAIL", proposed_ratio |-> Some(proposed_hedge_ratio),
          max_allowed |-> Some(LIMITS(hedge_type)),
          recommendation |-> Some((LIMITS(hedge_type) * 95) \div 100)]

\* a fault: a PASS carries a suggested ratio as well
check_hedge_compliance_advising(proposed_hedge_ratio, hedge_type) ==
    [status |-> IF proposed_hedge_ratio <= LIMITS(hedge_type) THEN "PASS" ELSE "FAIL",
     proposed_ratio |-> Some(proposed_hedge_ratio),
     max_allowed |-> Some(LIMITS(hedge_type)),
     recommendation |-> Some((LIMITS(hedge_type) * 95) \div 100)]

check_hedge_compliance(proposed_hedge_ratio, hedge_type) ==
    LET max_ratio == LIMITS(hedge_type)
    IN  IF proposed_hedge_ratio <= max_ratio
        THEN [status |-> "PASS", proposed_ratio |-> Some(proposed_hedge_ratio),
              max_allowed |-> Some(max_ratio), recommendation |-> None]
        ELSE [status |-> "FAIL", proposed_ratio |-> Some(proposed_hedge_ratio),
              max_allowed |-> Some(max_ratio),
              recommendation |-> Some((max_ratio * 95) \div 100)]

\* the same test double, in the shape check_hedge_compliance returns
PathologicalCheck(proposed_hedge_ratio, hedge_type) ==
    [status |-> "FAIL", proposed_ratio |-> Some(proposed_hedge_ratio),
     max_allowed |-> Some(LIMITS(hedge_type)),
     recommendation |-> Some((LIMITS(hedge_type) * 95) \div 100)]

\* each calculator raises KeyError unless the context holds the keys it reads
calculate_stress_scenario(ctx) ==
    IF StressKeys \subseteq ctx
    THEN [type |-> "stress", proposed_ratio |-> None]
    ELSE Raise("KeyError")
get_limit_status(ctx) ==
    IF "limits_df" \in ctx
    THEN [type |-> "limits", proposed_ratio |-> None]
    ELSE Raise("KeyError")
get_current_risk_metrics(ctx) ==
    IF (StressKeys \cup {"surplus", "fx_pct"}) \subseteq ctx
    THEN [type |-> "query", proposed_ratio |-> None]
    ELSE Raise("KeyError")

-----------------------------------------------------------------------------
(* agent_logic_lg.py: the graph variant *)

lg_NoAudit ==
    [status |-> "None", proposed_ratio |-> None, max_allowed |-> None,
     recommendation |-> None]

lg_initial_state(user_query, ctx) ==
    [user_query |-> user_query, ctx |-> ctx, thinking_steps |-> <<>>,
     intent |-> "", params |-> EmptyParams, calculation_result |-> NoCalc,
     audit_result |-> lg_NoAudit, final_response |-> Resp("empty", <<>>),
     iteration |-> 0]

lg_node_analyze(s) ==
    LET q == s.user_query
        intent ==
            IF AnyKw(q, {"hedge", "hedging", "adjust hedge", "hedge ratio"})
            THEN "hedge"
            ELSE IF AnyKw(q, {"stress", "scenario", "shock", "crisis", "what if"})
            THEN "stress"
            ELSE IF AnyKw(q, {"limit", "breach", "warning", "compliance"})
            THEN "limits"
            ELSE "query"
        params ==
            IF intent = "hedge"
            THEN [EmptyParams EXCEPT
                    !.hedge_ratio = Some(Or(_extract_percentage(q), 7000))]
            ELSE IF intent = "stress"
            THEN [EmptyParams EXCEPT
                    !.rate_bp = Some(Or(_extract_bp(q), 100)),
                    !.equity_pct = Some(Or(_extract_equity_shock(q), 0 - 1500))]
            ELSE EmptyParams
    IN  [s EXCEPT
            !.thinking_steps = Append(@, Step("Analyze", "success")),
            !.intent = intent,
            !.params = params]

\* a fault: what was computed before the failure is kept as the result
lg_node_calculate_partial(s) ==
    LET result ==
            CASE s.intent = "stress" -> calculate_stress_scenario(s.ctx)
              [] s.intent = "hedge" ->
                    [type |-> "hedge",
                     proposed_ratio |-> Some(Get(s.params.hedge_ratio, 7000))]
              [] s.intent = "limits" -> get_limit_status(s.ctx)
              [] OTHER -> get_current_risk_metrics(s.ctx)
    IN  IF ~IsRaise(result)
        THEN [s EXCEPT
                !.thinking_steps = Append(@, Step("Calculate", "success")),
                !.calculation_result = result]
        ELSE [s EXCEPT
                !.thinking_steps = Append(@, Step("Calculate", "error")),
                !.calculation_result = [type |-> s.intent, proposed_ratio |-> None]]

lg_node_calculate(s) ==
    LET result ==
            CASE s.intent = "stress" -> calculate_stress_scenario(s.ctx)
              [] s.intent = "hedge" ->
                    [type |-> "hedge",
                     proposed_ratio |-> Some(Get(s.params.hedge_ratio, 7000))]
              [] s.intent = "limits" -> get_limit_status(s.ctx)
              [] OTHER -> get_current_risk_metrics(s.ctx)
    IN  IF ~IsRaise(result)
        THEN [s EXCEPT
                !.thinking_steps = Append(@, Step("Calculate", "success")),
                !.calculation_result = result]
        ELSE IF ExceptException(result.exception)
        THEN [s EXCEPT
                !.thinking_steps = Append(@, Step("Calculate", "error")),
                !.calculation_result = [type |-> "error", proposed_ratio |-> None]]
        ELSE result

lg_node_audit(s, aud) ==
    LET proposed_ratio == Get(s.params.hedge_ratio, 0)
        audit_result ==
            IF aud = "real" THEN check_hedge_compliance(proposed_ratio, "duration")
            ELSE PathologicalCheck(proposed_ratio, "duration")
    IN  [s EXCEPT
            !.thinking_steps =
                Append(@, Step("Audit", IF audit_result.status = "PASS"
                                        THEN "success" ELSE "warning")),
            !.audit_result = audit_result]

\* a fault: REFINE changes the proposal without recording a step
lg_node_refine_silent(s) ==
    [s EXCEPT
        !.params.hedge_ratio = s.audit_result.recommendation,
        !.params.refined = TRUE,
        !.iteration = @ + 1]

lg_node_refine(s) ==
    IF Truthy(s.audit_result.recommendation)
    THEN [s EXCEPT
            !.thinking_steps = Append(@, Step("Refine", "success")),
            !.params.hedge_ratio = s.audit_result.recommendation,
            !.params.refined = TRUE,
            !.iteration = @ + 1]
    ELSE [s EXCEPT
            !.thinking_steps = Append(@, Step("Refine", "error")),
            !.iteration = @ + 1]

lg_node_respond(s, outcome) ==
    LET response == _call_llm(outcome)
    IN  IF ~IsRaise(response)
        THEN [s EXCEPT
                !.thinking_steps = Append(@, Step("Respond", "success")),
                !.final_response = response]
        ELSE IF ExceptException(response.exception)
        THEN [s EXCEPT
                !.thinking_steps = Append(@, Step("Respond", "error")),
                !.final_response = Resp("apology", <<>>)]
        ELSE response

route_after_analyze(s) ==
    IF s.intent \in {"hedge", "stress", "limits"} THEN "calculate" ELSE "respond"

route_after_calculate(s) ==
    IF s.intent = "hedge" THEN "audit" ELSE "respond"

\* a fault: the iteration test admits one more round
route_after_audit_late(s) ==
    IF s.audit_result.status = "FAIL" /\ s.iteration <= 3 THEN "refine" ELSE "respond"

route_after_audit(s) ==
    IF s.audit_result.status = "FAIL" /\ s.iteration < 3 THEN "refine" ELSE "respond"

\* get_compiled_graph(): the module global is built on first use and reused
get_compiled_graph(cache, v) == [cache EXCEPT ![v] = "compiled"]

\* One superstep of the compiled graph: the node at pc runs and the edge out
\* of it chooses the next node; reaching END returns from run_agent.
\* An exception that leaves the node leaves graph.invoke and run_agent.
GraphStep(v, node, out, next, llm, returns) ==
    /\ variant = v
    /\ pc = node
    /\ visited' = Append(visited, node)
    /\ llm_log' = llm_log \o llm
    /\ IF IsRaise(out)
       THEN /\ pc' = "crashed"
            /\ raised' = TRUE
            /\ UNCHANGED <<state, run_result>>
       ELSE /\ state' = out
            /\ pc' = next
            /\ run_result' = IF next = "END" THEN returns ELSE run_result
            /\ UNCHANGED raised
    /\ _compiled_graph' = get_compiled_graph(_compiled_graph, v)
    /\ UNCHANGED <<variant, auditor, step_count, resolutions, peer, session_state>>

\* run_agent's return value, from the final state of the graph
lg_returns(out) ==
    IF IsRaise(out) THEN NotReturned
    ELSE Returned(out.final_response, out.thinking_steps, FALSE, NoContext)

LgStep(node, out, next, llm) ==
    GraphStep("lg", node, out, next, llm, lg_returns(out))

LgAnalyze ==
    LgStep("analyze", lg_node_analyze(state),
           route_after_analyze(lg_node_analyze(state)), <<>>)
LgCalculate ==
    LgStep("calculate", lg_node_calculate(state),
           IF IsRaise(lg_node_calculate(state)) THEN "crashed"
           ELSE route_after_calculate(lg_node_calculate(state)), <<>>)
LgAudit ==
    LgStep("audit", lg_node_audit(state, auditor),
           route_after_audit(lg_node_audit(state, auditor)), <<>>)
LgRefine == LgStep("refine", lg_node_refine(state), "audit", <<>>)
LgRespond ==
    \E outcome \in LLMOutcomes :
        LgStep("respond", lg_node_respond(state, outcome), "END",
               <<RespondCall(outcome)>>)

-----------------------------------------------------------------------------
(* agent_logic_gov.py: tool calling and human approval *)

\* A JSON scalar of the model's reply: t is "absent" (no such key), "null",
\* "num" (v in 1/10000) or "str" (a non-empty string).
J(t, v) == [t |-> t, v |-> v]
Absent == J("absent", 0)
JTruthy(j) == (j.t = "num" /\ j.v # 0) \/ j.t = "str"

\* tool_params: shape is "dict", "null" or "nondict" (a string, a list)
Params(shape, ratio, hedge_ratio, hedge_type) ==
    [shape |-> shape, ratio |-> ratio, hedge_ratio |-> hedge_ratio,
     hedge_type |-> hedge_type]
EmptyDict == Params("dict", Absent, Absent, "absent")

\* the parsed reply: an object with the two keys the node reads, an array,
\* or text that is no JSON ("garbage"); selected_tool "absent" is a missing
\* key and "<list>" a JSON array in its place
Payload(type, selected_tool, tool_params) ==
    [type |-> type, selected_tool |-> selected_tool, tool_params |-> tool_params]

\* the chat-completion call of the tool selector: it raises, or returns a
\* null content, or a text, possibly wrapped in a code fence with a tag
Reply(kind, fence, payload) == [kind |-> kind, fence |-> fence, payload |-> payload]

TOOL_MAP == {"get_risk_metrics", "run_stress_test", "check_hedge_compliance",
             "get_limit_status", "get_asset_allocation"}

RatioValues ==
    {Absent, J("null", 0), J("str", 0), J("num", 0), J("num", 5000),
     J("num", 8000), J("num", 8500), J("num", 9500), J("num", 0 - 1000)}
    \cup {J("num", 10000 + 5000 * k) : k \in 1..MaxOverPct}

HedgeParams ==
    {Params("dict", r, Absent, "absent") : r \in RatioValues}
    \cup {Params("dict", J("num", r), Absent, h) :
            r \in {4750, 5000, 8550, 9500},
            h \in {"duration", "fx", "equity", "commodity"}}
    \cup {Params("dict", r, h, "absent") :
            r \in {Absent, J("num", 0)}, h \in {J("num", 8500), J("null", 0)}}
    \cup {Params("null", Absent, Absent, "absent"),
          Params("nondict", Absent, Absent, "absent")}

Payloads ==
    {Payload("object", "check_hedge_compliance", tp) : tp \in HedgeParams}
    \cup {Payload("object", st, tp) :
            st \in (TOOL_MAP \ {"check_hedge_compliance"})
                   \cup {"absent", "make_trade", "<list>"},
            tp \in {EmptyDict, Params("nondict", Absent, Absent, "absent")}}
    \cup {Payload("array", "absent", EmptyDict),
          Payload("garbage", "absent", EmptyDict)}

Replies ==
    {Reply("raise", "none", Payload("garbage", "absent", EmptyDict)),
     Reply("null", "none", Payload("garbage", "absent", EmptyDict))}
    \cup {Reply("text", "none", pl) : pl \in Payloads}
    \cup {Reply("text", f, Payload("object", "check_hedge_compliance",
                                   Params("dict", J("num", 8500), Absent, "absent"))) :
            f \in {"plain", "json", "other"}}

\* ThinkingStep of agent_logic_gov
GovStep(node, status, requires_approval) ==
    [node |-> node, status |-> status, requires_approval |-> requires_approval]

ToolOutput(tool, status, ratio, max_ratio, hedge_type, compliant_ratio, req) ==
    [tool |-> tool, status |-> status, proposed_ratio |-> ratio,
     max_allowed |-> max_ratio, hedge_type |-> hedge_type,
     recommendation |-> compliant_ratio, requires_approval |-> req]
\* tool_output == {}
EmptyOutput == ToolOutput("None", "None", None, None, "None", None, FALSE)
\* the result of a tool that is no compliance check
PlainOutput(tool) == ToolOutput(tool, "None", None, None, "None", None, FALSE)

gov_initial_state(user_query, ctx) ==
    [user_query |-> user_query, ctx |-> ctx, thinking_steps |-> <<>>,
     selected_tool |-> "", tool_input |-> EmptyDict, tool_output |-> EmptyOutput,
     requires_approval |-> FALSE, approval_status |-> "", approval_reason |-> "",
     final_response |-> Resp("empty", <<>>)]

\* skills_v2.COMPLIANCE_LIMITS.get(hedge_type, duration row)["max_hedge_ratio"]
COMPLIANCE_LIMITS(hedge_type) ==
    CASE hedge_type = "duration" -> 8000
      [] hedge_type = "fx" -> 9000
      [] hedge_type = "equity" -> 5000
      [] OTHER -> 8000

\* a fault: the recommendation is 105% of the limit
_execute_check_hedge_compliance_above(ratio, hedge_type) ==
    IF ratio <= COMPLIANCE_LIMITS(hedge_type)
    THEN ToolOutput("check_hedge_compliance", "PASS", Some(ratio),
                    Some(COMPLIANCE_LIMITS(hedge_type)), hedge_type, None, FALSE)
    ELSE ToolOutput("check_hedge_compliance", "FAIL", Some(ratio),
                    Some(COMPLIANCE_LIMITS(hedge_type)), hedge_type,
                    Some((COMPLIANCE_LIMITS(hedge_type) * 105) \div 100), TRUE)

_execute_check_hedge_compliance(ratio, hedge_type) ==
    LET max_ratio == COMPLIANCE_LIMITS(hedge_type)
    IN  IF ratio <= max_ratio
        THEN ToolOutput("check_hedge_compliance", "PASS", Some(ratio),
                        Some(max_ratio), hedge_type, None, FALSE)
        ELSE ToolOutput("check_hedge_compliance", "FAIL", Some(ratio),
                        Some(max_ratio), hedge_type,
                        Some((max_ratio * 95) \div 100), TRUE)

\* the text json.loads receives: a leading fence is cut off, and a "json"
\* tag after it; any other tag stays in front of the payload
StrippedText(reply) ==
    IF reply.fence = "other"
    THEN Payload("garbage", "absent", EmptyDict)
    ELSE reply.payload

\* The try block of node_analyze_with_tools: the parsed object, or the
\* exception the call, .strip(), json.loads or result.get raises.
SelectTool(reply) ==
    CASE reply.kind = "raise" -> Raise("APIError")
      [] reply.kind = "null" -> Raise("AttributeError")
      [] reply.kind = "text" /\ StrippedText(reply).type = "garbage" ->
            Raise("JSONDecodeError")
      [] reply.kind = "text" /\ StrippedText(reply).type = "array" ->
            Raise("AttributeError")
      [] OTHER -> StrippedText(reply)

\* the except branch: keyword rules on the user's text
FallbackSelection(q) ==
    IF "hedge" \in q.kws
    THEN [selected_tool |-> "check_hedge_compliance",
          tool_input |->
            Params("dict",
                   IF q.pct # None THEN J("num", TheVal(q.pct) * 100)
                   ELSE J("num", 7000),
                   Absent, "absent")]
    ELSE IF q.kws \cap {"stress", "shock"} # {}
    THEN [selected_tool |-> "run_stress_test", tool_input |-> EmptyDict]
    ELSE IF q.kws \cap {"limit", "breach"} # {}
    THEN [selected_tool |-> "get_limit_status", tool_input |-> EmptyDict]
    ELSE [selected_tool |-> "get_risk_metrics", tool_input |-> EmptyDict]

\* a fault: only the API call is guarded, the parsing is not
node_analyze_with_tools_narrow(s, reply) ==
    LET result == SelectTool(reply)
    IN  IF ~IsRaise(result)
        THEN [s EXCEPT
                !.thinking_steps =
                    Append(@, GovStep("Tool Selection", "success", FALSE)),
                !.selected_tool =
                    IF result.selected_tool = "absent" THEN "get_risk_metrics"
                    ELSE result.selected_tool,
                !.tool_input = result.tool_params]
        ELSE IF result.exception = "APIError"
        THEN [s EXCEPT
                !.thinking_steps =
                    Append(@, GovStep("Tool Selection", "warning", FALSE)),
                !.selected_tool = FallbackSelection(s.user_query).selected_tool,
                !.tool_input = FallbackSelection(s.user_query).tool_input]
        ELSE result

node_analyze_with_tools(s, reply) ==
    LET result == SelectTool(reply)
    IN  IF ~IsRaise(result)
        THEN [s EXCEPT
                !.thinking_steps =
                    Append(@, GovStep("Tool Selection", "success", FALSE)),
                !.selected_tool =
                    IF result.selected_tool = "absent" THEN "get_risk_metrics"
                    ELSE result.selected_tool,
                !.tool_input = result.tool_params]
        ELSE IF ExceptException(result.exception)
        THEN [s EXCEPT
                !.thinking_steps =
                    Append(@, GovStep("Tool Selection", "warning", FALSE)),
                !.selected_tool = FallbackSelection(s.user_query).selected_tool,
                !.tool_input = FallbackSelection(s.user_query).tool_input]
        ELSE result

\* ratio = tool_params.get("ratio") or tool_params.get("hedge_ratio", 0.70)
RatioArgument(tool_params) ==
    IF JTruthy(tool_params.ratio) THEN tool_params.ratio
    ELSE IF tool_params.hedge_ratio.t = "absent" THEN J("num", 7000)
    ELSE tool_params.hedge_ratio

\* the tool call inside the try block of node_execute_tool: the tool's
\* result or the exception it raises
CallTool(selected_tool, tool_params, ctx) ==
    CASE selected_tool = "check_hedge_compliance" ->
            IF tool_params.shape # "dict" THEN Raise("AttributeError")
            ELSE IF RatioArgument(tool_params).t # "num" THEN Raise("TypeError")
            ELSE _execute_check_hedge_compliance(
                    RatioArgument(tool_params).v,
                    IF tool_params.hedge_type = "absent" THEN "duration"
                    ELSE tool_params.hedge_type)
      [] selected_tool = "run_stress_test" ->
            IF tool_params.shape # "dict" THEN Raise("AttributeError")
            ELSE IF ~(StressKeys \subseteq ctx) THEN Raise("KeyError")
            ELSE PlainOutput(selected_tool)
      [] selected_tool = "get_limit_status" ->
            IF "limits_df" \notin ctx THEN Raise("KeyError")
            ELSE PlainOutput(selected_tool)
      [] selected_tool = "get_asset_allocation" ->
            IF ~({"comp_df", "total_assets"} \subseteq ctx) THEN Raise("KeyError")
            ELSE PlainOutput(selected_tool)
      [] OTHER ->
            IF ~((StressKeys \cup {"surplus", "fx_pct"}) \subseteq ctx)
            THEN Raise("KeyError")
            ELSE PlainOutput(selected_tool)

\* "selected_tool not in TOOL_MAP" hashes selected_tool before the try block
\* is entered: a list in its place raises TypeError out of the node
node_execute_tool(s) ==
    IF s.selected_tool = "<list>" THEN Raise("TypeError")
    ELSE IF s.selected_tool \notin TOOL_MAP
    THEN [s EXCEPT
            !.thinking_steps = Append(@, GovStep("Execute", "error", FALSE)),
            !.tool_output = EmptyOutput]
    ELSE LET result == CallTool(s.selected_tool, s.tool_input, s.ctx)
         IN  IF ~IsRaise(result)
             THEN [s EXCEPT
                    !.thinking_steps =
                        Append(@, GovStep("Execute", "success", FALSE)),
                    !.tool_output = result]
             ELSE IF ExceptException(result.exception)
             THEN [s EXCEPT
                    !.thinking_steps =
                        Append(@, GovStep("Execute", "error", FALSE)),
                    !.tool_output = EmptyOutput]
             ELSE result

\* a fault: approval is asked for whenever the check did not say PASS
gov_node_audit_eager(s) ==
    LET requires_approval ==
            s.selected_tool = "check_hedge_compliance"
            /\ s.tool_output.status # "PASS"
    IN  [s EXCEPT
            !.thinking_steps =
                Append(@, IF requires_approval
                          THEN GovStep("Audit", "warning", TRUE)
                          ELSE GovStep("Audit", "success", FALSE)),
            !.requires_approval = requires_approval,
            !.approval_reason = IF requires_approval THEN "exceeds limit" ELSE "",
            !.approval_status = IF requires_approval THEN "pending" ELSE ""]

gov_node_audit(s) ==
    LET requires_approval ==
            s.selected_tool = "check_hedge_compliance"
            /\ s.tool_output.status = "FAIL"
    IN  [s EXCEPT
            !.thinking_steps =
                Append(@, IF requires_approval
                          THEN GovStep("Audit", "warning", TRUE)
                          ELSE GovStep("Audit", "success", FALSE)),
            !.requires_approval = requires_approval,
            !.approval_reason = IF requires_approval THEN "exceeds limit" ELSE "",
            !.approval_status = IF requires_approval THEN "pending" ELSE ""]

\* TRUE iff node_respond answers with the fixed approval prompt, without
\* calling the language model
AwaitsApproval(s) == s.requires_approval /\ s.approval_status = "pending"

gov_node_respond(s, outcome) ==
    IF AwaitsApproval(s)
    THEN [s EXCEPT
            !.thinking_steps = Append(@, GovStep("Respond", "pending", TRUE)),
            !.final_response =
                Resp("approval_prompt",
                     <<Pct0(Get(s.tool_output.proposed_ratio, 0)),
                       Pct0(Get(s.tool_output.max_allowed, 0)),
                       Pct0(Get(s.tool_output.recommendation, 0))>>)]
    ELSE LET response == _call_llm(outcome)
         IN  IF ~IsRaise(response)
             THEN [s EXCEPT
                    !.thinking_steps =
                        Append(@, GovStep("Respond", "success", FALSE)),
                    !.final_response = response]
             ELSE IF ExceptException(response.exception)
             THEN [s EXCEPT
                    !.thinking_steps =
                        Append(@, GovStep("Respond", "error", FALSE)),
                    !.final_response = Resp("error_text", <<>>)]
             ELSE response

\* a fault: approval applies the ratio that was asked for
node_handle_approval_proposed(s) ==
    IF s.approval_status = "approved"
    THEN [s EXCEPT
            !.thinking_steps = Append(@, GovStep("Approved", "success", FALSE)),
            !.final_response =
                Resp("approved",
                     <<Pct0(Get(s.tool_output.proposed_ratio, 0)),
                       Pct0(Get(s.tool_output.max_allowed, 0))>>)]
    ELSE IF s.approval_status = "rejected"
    THEN [s EXCEPT
            !.thinking_steps = Append(@, GovStep("Rejected", "error", FALSE)),
            !.final_response = Resp("rejected", <<>>)]
    ELSE s

node_handle_approval(s) ==
    IF s.approval_status = "approved"
    THEN LET new_ratio == Get(s.tool_output.recommendation, 0)
         IN  [s EXCEPT
                !.thinking_steps = Append(@, GovStep("Approved", "success", FALSE)),
                !.final_response =
                    Resp("approved",
                         <<Pct0(new_ratio), Pct0(Get(s.tool_output.max_allowed, 0))>>)]
    ELSE IF s.approval_status = "rejected"
    THEN [s EXCEPT
            !.thinking_steps = Append(@, GovStep("Rejected", "error", FALSE)),
            !.final_response = Resp("rejected", <<>>)]
    ELSE s

gov_route_after_audit(s) ==
    IF s.requires_approval THEN "wait_approval" ELSE "respond"

\* the conditional edge after "audit" maps both routes to the node "respond"
audit_edges(route) ==
    CASE route = "wait_approval" -> "respond"
      [] route = "respond" -> "respond"

\* run_agent's return value, from the final state of the graph
gov_returns(out) ==
    IF IsRaise(out) THEN NotReturned
    ELSE Returned(out.final_response, out.thinking_steps, out.requires_approval,
                  IF out.requires_approval
                  THEN [proposed_ratio |-> out.tool_output.proposed_ratio,
                        max_allowed |-> out.tool_output.max_allowed,
                        recommendation |-> out.tool_output.recommendation]
                  ELSE NoContext)

\* an entry of llm_log: the tool-selection call and the reply it got
SelectCall(reply) == [node |-> "analyze", kind |-> reply.kind, reply |-> reply]

GovStepTo(node, out, next, llm) ==
    GraphStep("gov", node, out, next, llm, gov_returns(out))

GovAnalyze ==
    \E reply \in Replies :
        GovStepTo("analyze", node_analyze_with_tools(state, reply), "execute",
                  <<SelectCall(reply)>>)

GovExecute == GovStepTo("execute", node_execute_tool(state), "audit", <<>>)

GovAudit ==
    GovStepTo("audit", gov_node_audit(state),
              audit_edges(gov_route_after_audit(gov_node_audit(state))), <<>>)

GovRespond ==
    \E outcome \in LLMOutcomes :
        GovStepTo("respond", gov_node_respond(state, outcome), "END",
                  IF AwaitsApproval(state) THEN <<>>
                  ELSE <<RespondCall(outcome)>>)

\* process_approval(decision, ctx, api_key, pending_state): the caller passes
\* the state of the suspended turn; the function copies it, never writes it
process_approval(decision, pending_state) ==
    LET result_state ==
            node_handle_approval([pending_state EXCEPT !.approval_status = decision])
    IN  [decision |-> decision, response |-> result_state.final_response,
         steps |-> result_state.thinking_steps]

\* a fault: the node appends to the list of the state it was given
list_alias(original, appended) == appended

\* steps = list(state.get("thinking_steps", [])): the node appends to a copy,
\* so the list of the state it was given keeps its elements
list_copy(original, appended) == original

\* The pending state once process_approval has returned: {**pending_state,
\* "approval_status": ...} builds a new mapping, and the only container the
\* node writes to is its copy of thinking_steps.
pending_after(decision, pending_state) ==
    [pending_state EXCEPT
        !.thinking_steps =
            list_copy(@, process_approval(decision, pending_state).steps)]

\* The host resolves the suspended turn; nothing in process_approval stops
\* it from passing the same pending state again.
ProcessApproval ==
    /\ variant = "gov"
    /\ pc = "END"
    /\ state.requires_approval
    /\ Len(resolutions) < MaxResolutions
    /\ \E decision \in {"approved", "rejected"} :
        /\ resolutions' = Append(resolutions, process_approval(decision, state))
        /\ state' = pending_after(decision, state)
    /\ UNCHANGED <<variant, auditor, pc, step_count, visited, raised,
                   llm_log, run_result, peer, _compiled_graph, session_state>>

\* st.session_state after render has initialised its keys: no messages, no
\* steps shown, nothing pending
NoSession ==
    [gov_chat_history |-> <<>>, gov_thinking_steps |-> <<>>,
     gov_pending_approval |-> None]

-----------------------------------------------------------------------------
(* The turn *)

\* no second turn
NoPeer == [variant |-> "none"]
\* _compiled_graph = None in both modules
NotCompiled == [v \in {"lg", "gov"} |-> "None"]

Init ==
    /\ variant \in {"manual", "lg", "gov"}
    /\ auditor \in IF variant = "gov" THEN {"real"} ELSE {"real", "always_fail"}
    /\ \E q \in Texts, c \in Contexts :
        state = CASE variant = "manual" -> AgentState(q, c)
                  [] variant = "lg" -> lg_initial_state(q, c)
                  [] variant = "gov" -> gov_initial_state(q, c)
    /\ pc = CASE variant = "manual" -> "loop"
             [] OTHER -> "analyze"
    /\ step_count = 0
    /\ visited = <<>>
    /\ raised = FALSE
    /\ llm_log = <<>>
    /\ run_result = NotReturned
    /\ resolutions = <<>>
    /\ peer = NoPeer
    /\ _compiled_graph = NotCompiled
    /\ session_state = NoSession

Next ==
    \/ ManualAnalyze
    \/ ManualCalculate
    \/ ManualAudit
    \/ ManualRefine
    \/ ManualRespond
    \/ LgAnalyze
    \/ LgCalculate
    \/ LgAudit
    \/ LgRefine
    \/ LgRespond
    \/ GovAnalyze
    \/ GovExecute
    \/ GovAudit
    \/ GovRespond
    \/ ProcessApproval

Spec == Init /\ [][Next]_vars

-----------------------------------------------------------------------------
(* Two turns at once: the host runs run_agent for two sessions, the nodes of *)
(* the two runs interleaving.  The variables hold the locals of the run that *)
(* executes; peer holds the locals of the other.                             *)

\* the locals of a run_agent invocation
Run(v, aud, p, s, n, vis, r, log, res, rsl) ==
    [variant |-> v, auditor |-> aud, pc |-> p, state |-> s, step_count |-> n,
     visited |-> vis, raised |-> r, llm_log |-> log, run_result |-> res,
     resolutions |-> rsl]

\* run_agent's first lines: a new loop state for the query
NewRun(v, q, c) ==
    Run(v, "real", IF v = "manual" THEN "loop" ELSE "analyze",
        CASE v = "manual" -> AgentState(q, c)
          [] v = "lg" -> lg_initial_state(q, c)
          [] v = "gov" -> gov_initial_state(q, c),
        0, <<>>, FALSE, <<>>, NotReturned, <<>>)

\* the trace list of an AgentState when another run shares the process
\* (a fault: one list object serves every AgentState)
mutable_default(own, shared) == shared

\* thinking_steps is field(default_factory=list) in agent_logic and a list
\* literal in the initial_state of the graphs, and the graph nodes append to
\* a copy: the list a run reads is the one it built itself.
field_default_factory(own, shared) == own

\* the inputs of the two-turn runs
PairTexts == {ScenarioA, Text({"stress"}, None, Some(200), None)}
PairReplies ==
    {Reply("raise", "none", Payload("garbage", "absent", EmptyDict)),
     Reply("text", "none",
           Payload("object", "check_hedge_compliance",
                   Params("dict", J("num", 8500), Absent, "absent"))),
     Reply("text", "none", Payload("object", "run_stress_test", EmptyDict))}
PairBound ==
    \A i \in 1..Len(llm_log) :
        IF llm_log[i].node = "respond"
        THEN llm_log[i].kind \in {"text", "empty"}
        ELSE llm_log[i].reply \in PairReplies

PairInit ==
    /\ \E v \in {"manual", "lg", "gov"}, q \in PairTexts :
        /\ variant = v
        /\ state = NewRun(v, q, CtxKeys).state
        /\ pc = NewRun(v, q, CtxKeys).pc
    /\ auditor = "real"
    /\ step_count = 0
    /\ visited = <<>>
    /\ raised = FALSE
    /\ llm_log = <<>>
    /\ run_result = NotReturned
    /\ resolutions = <<>>
    /\ peer \in {NewRun(v, q, CtxKeys) : v \in {"manual", "lg", "gov"}, q \in PairTexts}
    /\ _compiled_graph = NotCompiled
    /\ session_state = NoSession

\* The scheduler suspends the running turn and resumes the other.
Switch ==
    /\ peer.variant # "none"
    /\ peer' = Run(variant, auditor, pc, state, step_count, visited, raised,
                   llm_log, run_result, resolutions)
    /\ variant' = peer.variant
    /\ auditor' = peer.auditor
    /\ pc' = peer.pc
    /\ state' = [peer.state EXCEPT
                    !.thinking_steps =
                        field_default_factory(@, state.thinking_steps)]
    /\ step_count' = peer.step_count
    /\ visited' = peer.visited
    /\ raised' = peer.raised
    /\ llm_log' = peer.llm_log
    /\ run_result' = peer.run_result
    /\ resolutions' = peer.resolutions
    /\ UNCHANGED <<_compiled_graph, session_state>>

\* the steps of the running turn, on the inputs above, and the switch
PairNext ==
    \/ ManualAnalyze /\ PairBound'
    \/ ManualCalculate /\ PairBound'
    \/ ManualAudit /\ PairBound'
    \/ ManualRefine /\ PairBound'
    \/ ManualRespond /\ PairBound'
    \/ LgAnalyze /\ PairBound'
    \/ LgCalculate /\ PairBound'
    \/ LgAudit /\ PairBound'
    \/ LgRefine /\ PairBound'
    \/ LgRespond /\ PairBound'
    \/ GovAnalyze /\ PairBound'
    \/ GovExecute /\ PairBound'
    \/ GovAudit /\ PairBound'
    \/ GovRespond /\ PairBound'
    \/ ProcessApproval /\ PairBound'
    \/ Switch

PairSpec == PairInit /\ [][PairNext]_vars

RECURSIVE SoloManual(_, _, _, _)
\* agent_logic.run_agent on its own: the loop from state s after n passes,
\* the language model answering as in log
SoloManual(s, aud, n, log) ==
    LET node == s.current_node
        out == CASE node = "analyze" -> _node_analyze(s)
                 [] node = "calculate" -> _node_calculate(s)
                 [] node = "audit" -> _node_audit(s, aud)
                 [] node = "refine" -> _node_refine(s)
                 [] node = "respond" -> _node_respond(s, Head(log).kind)
        rest == IF node = "respond" THEN Tail(log) ELSE log
    IN  IF ManualFinished(out) \/ n + 1 >= max_steps
        THEN Returned(IF RespTruthy(out.final_response)
                      THEN out.final_response ELSE Resp("unable", <<>>),
                      out.thinking_steps, FALSE, NoContext)
        ELSE SoloManual(out, aud, n + 1, rest)

RECURSIVE SoloLg(_, _, _, _)
\* agent_logic_lg.run_agent on its own, from node on
SoloLg(s, aud, node, log) ==
    LET out == CASE node = "analyze" -> lg_node_analyze(s)
                 [] node = "calculate" -> lg_node_calculate(s)
                 [] node = "audit" -> lg_node_audit(s, aud)
                 [] node = "refine" -> lg_node_refine(s)
                 [] node = "respond" -> lg_node_respond(s, Head(log).kind)
        next == CASE node = "analyze" -> route_after_analyze(out)
                  [] node = "calculate" -> route_after_calculate(out)
                  [] node = "audit" -> route_after_audit(out)
                  [] node = "refine" -> "audit"
                  [] node = "respond" -> "END"
        rest == IF node = "respond" THEN Tail(log) ELSE log
    IN  IF next = "END" THEN lg_returns(out) ELSE SoloLg(out, aud, next, rest)

RECURSIVE SoloGov(_, _, _)
\* agent_logic_gov.run_agent on its own, from node on
SoloGov(s, node, log) ==
    LET out == CASE node = "analyze" -> node_analyze_with_tools(s, Head(log).reply)
                 [] node = "execute" -> node_execute_tool(s)
                 [] node = "audit" -> gov_node_audit(s)
                 [] node = "respond" ->
                        gov_node_respond(s, IF AwaitsApproval(s) THEN "text"
                                            ELSE Head(log).kind)
        next == CASE node = "analyze" -> "execute"
                  [] node = "execute" -> "audit"
                  [] node = "audit" -> audit_edges(gov_route_after_audit(out))
                  [] node = "respond" -> "END"
        rest == IF node = "analyze" THEN Tail(log) ELSE log
    IN  IF IsRaise(out) THEN NotReturned
        ELSE IF next = "END" THEN gov_returns(out)
        ELSE SoloGov(out, next, rest)

\* what the run r returns when it is the only run of the process
Solo(r) ==
    CASE r.variant = "manual" ->
            SoloManual(AgentState(r.state.user_query, r.state.ctx), r.auditor,
                       0, r.llm_log)
      [] r.variant = "lg" ->
            SoloLg(lg_initial_state(r.state.user_query, r.state.ctx), r.auditor,
                   "analyze", r.llm_log)
      [] r.variant = "gov" ->
            SoloGov(gov_initial_state(r.state.user_query, r.state.ctx),
                    "analyze", r.llm_log)

-----------------------------------------------------------------------------
(* Properties *)

\* how often a node has executed in this run
Count(node) == Cardinality({i \in 1..Len(visited) : visited[i] = node})
\* the status of the last trace entry of a node
LastStatus(node) ==
    LET idx == {i \in 1..Len(state.thinking_steps) :
                    state.thinking_steps[i].node = node}
    IN  state.thinking_steps[CHOOSE i \in idx : \A j \in idx : j <= i].status
\* the two variants that refine on their own
AutoRefining == variant \in {"manual", "lg"}
\* run_agent has returned
Terminal == pc \in {"done", "END"}
\* RESPOND is the node to run, or has run
AtRespond ==
    \/ variant = "manual" /\ state.current_node = "respond"
    \/ variant = "lg" /\ pc \in {"respond", "END"}
\* RESPOND was the last node executed
RespondRan == visited # <<>> /\ visited[Len(visited)] = "respond"
HedgeTypes == {"duration", "fx", "equity", "commodity"}

\* C1: in agent_logic and agent_logic_lg, when RESPOND runs on a hedge
\* request an audit is on record; it says PASS only if the current
\* params.hedge_ratio is within the limit, it says PASS exactly when the last
\* Audit step of the trace succeeded, and once the iteration budget is used
\* up a failed audit is still on record as FAIL.
C1_AuditHonestAtRespond ==
    (AutoRefining /\ AtRespond /\ state.intent = "hedge") =>
        /\ state.audit_result.status \in {"PASS", "FAIL"}
        /\ state.audit_result.status = "PASS" =>
                Get(state.params.hedge_ratio, 0) <= max_hedge_ratio
        /\ state.audit_result.status = "PASS" <=> LastStatus("Audit") = "success"
        /\ (state.iteration >= max_iterations /\ LastStatus("Audit") = "warning") =>
                state.audit_result.status = "FAIL"

\* C1 witness: an 85% request answered after one refinement, PASS at 76%
C1_Witness ==
    /\ variant = "manual"
    /\ auditor = "real"
    /\ pc = "done"
    /\ state.intent = "hedge"
    /\ state.calculation_result.proposed_ratio = Some(8500)
    /\ state.audit_result.status = "PASS"
    /\ state.params.hedge_ratio = Some(7600)

\* C2: every FAIL the code's auditors produce recommends a ratio that is at
\* most max_allowed and that the same auditor passes: the recorded audit of
\* agent_logic, check_hedge_compliance of skills.py on the recorded proposal
\* for every hedge type, and the recorded tool output of the governed graph.
C2_RecommendationCompliant ==
    /\ (variant = "manual" /\ auditor = "real"
        /\ state.audit_result.status = "FAIL") =>
            LET a == state.audit_result
            IN  /\ TheVal(a.recommendation) <= TheVal(a.max_allowed)
                /\ manual_audit(TheVal(a.recommendation),
                                TheVal(a.max_allowed)).status = "PASS"
    /\ (variant = "lg" /\ auditor = "real"
        /\ state.audit_result.status \in {"PASS", "FAIL"}) =>
            \A h \in HedgeTypes :
                LET a == check_hedge_compliance(
                            TheVal(state.audit_result.proposed_ratio), h)
                IN  a.status = "FAIL" =>
                        /\ TheVal(a.recommendation) <= TheVal(a.max_allowed)
                        /\ check_hedge_compliance(TheVal(a.recommendation),
                                                  h).status = "PASS"
    /\ (variant = "gov" /\ state.tool_output.status = "FAIL") =>
            LET a == state.tool_output
            IN  /\ TheVal(a.recommendation) <= TheVal(a.max_allowed)
                /\ _execute_check_hedge_compliance(
                        TheVal(a.recommendation), a.hedge_type).status = "PASS"

\* C2 witness: an equity hedge above the 50% limit fails, recommendation 47.5%
C2_Witness ==
    /\ variant = "gov"
    /\ state.tool_output.status = "FAIL"
    /\ state.tool_output.hedge_type = "equity"
    /\ state.tool_output.recommendation = Some(4750)

\* C3: whatever the text and whichever auditor, REFINE executes at most
\* max_iterations times, at most max_steps nodes execute, a run that has not
\* returned has budget left and a node to run, and a run that has returned
\* has executed RESPOND.
C3_LoopBounded ==
    AutoRefining =>
        /\ Count("refine") <= max_iterations
        /\ state.iteration = Count("refine")
        /\ Len(visited) <= max_steps
        /\ ~raised
        /\ ~Terminal => (Len(visited) < max_steps /\ ENABLED Next)
        /\ Terminal => RespondRan

\* C3 witness: the always-failing auditor drives the manual loop through
\* three refinements and RESPOND is the tenth node
C3_Witness ==
    /\ variant = "manual"
    /\ auditor = "always_fail"
    /\ pc = "done"
    /\ Count("refine") = max_iterations
    /\ Len(visited) = max_steps
    /\ RespondRan
    /\ Count("respond") = 1

\* C4: a hedge proposal within the limit (the limit included) is never
\* refined: REFINE does not execute, iteration stays 0, the ratio stays the
\* proposed one, and once audited the record says PASS.
C4_CompliantNeverRefined ==
    (AutoRefining /\ auditor = "real"
     /\ state.calculation_result.type = "hedge"
     /\ TheVal(state.calculation_result.proposed_ratio) <= max_hedge_ratio) =>
        /\ Count("refine") = 0
        /\ state.iteration = 0
        /\ state.params.hedge_ratio = state.calculation_result.proposed_ratio
        /\ ~state.params.refined
        /\ Count("audit") <= 1
        /\ Count("audit") = 1 => state.audit_result.status = "PASS"

\* C4 witness: a request for exactly 80% audited by the graph variant
C4_Witness ==
    /\ variant = "lg"
    /\ auditor = "real"
    /\ pc = "END"
    /\ state.calculation_result.proposed_ratio = Some(max_hedge_ratio)
    /\ state.audit_result.status = "PASS"
    /\ visited = <<"analyze", "calculate", "audit", "respond">>

\* C5 (as the specification states it): the 85% request of Scenario A runs
\* exactly ANALYZE, CALCULATE, AUDIT, REFINE, AUDIT, RESPOND, the first audit
\* failing with recommendation 76% against 80%, the second passing at 76%
\* with iteration 1.
C5_ScenarioA_Sequence ==
    (AutoRefining /\ auditor = "real" /\ Terminal
     /\ state.user_query = ScenarioA) =>
        /\ visited = <<"analyze", "calculate", "audit", "refine", "audit",
                       "respond">>
        /\ state.intent = "hedge"
        /\ state.calculation_result.proposed_ratio = Some(8500)
        /\ state.thinking_steps[3] = Step("Audit", "warning")
        /\ state.params.hedge_ratio = Some(7600)
        /\ state.audit_result.status = "PASS"
        /\ state.iteration = 1

\* C5 failing run: the manual loop on Scenario A, the completion empty each
\* time: RESPOND executes five times
C5_RespondRepeats ==
    /\ variant = "manual"
    /\ auditor = "real"
    /\ pc = "done"
    /\ state.user_query = ScenarioA
    /\ visited = <<"analyze", "calculate", "audit", "refine", "audit",
                   "respond", "respond", "respond", "respond", "respond">>
    /\ run_result.response = Resp("unable", <<>>)

\* C6: a governed run ends requiring approval, with approval_status
\* "pending", exactly when the selected tool is check_hedge_compliance and
\* its output has status FAIL; then the answer is the fixed approval prompt
\* showing the proposed ratio, the limit and the recommendation, run_agent
\* hands the same three values out as approval_context, the proposed ratio on
\* record is still the one asked for, and only the four nodes of the graph
\* have executed, RESPOND without calling the language model.
C6_ApprovalIffHedgeFail ==
    (variant = "gov" /\ pc = "END") =>
        /\ (state.requires_approval /\ state.approval_status = "pending")
              <=> (state.selected_tool = "check_hedge_compliance"
                   /\ state.tool_output.status = "FAIL")
        /\ state.requires_approval <=> state.approval_status = "pending"
        /\ run_result.requires_approval = state.requires_approval
        /\ state.requires_approval =>
            /\ state.final_response =
                 Resp("approval_prompt",
                      <<Pct0(TheVal(state.tool_output.proposed_ratio)),
                        Pct0(TheVal(state.tool_output.max_allowed)),
                        Pct0(TheVal(state.tool_output.recommendation))>>)
            /\ run_result.response = state.final_response
            /\ run_result.approval_context =
                 [proposed_ratio |-> state.tool_output.proposed_ratio,
                  max_allowed |-> state.tool_output.max_allowed,
                  recommendation |-> state.tool_output.recommendation]
            /\ state.tool_output.proposed_ratio =
                 Some(RatioArgument(state.tool_input).v)
            /\ TheVal(state.tool_output.proposed_ratio) >
                 TheVal(state.tool_output.max_allowed)
            /\ visited = <<"analyze", "execute", "audit", "respond">>
            /\ Len(llm_log) = 1

\* C6 witness: the model selects the compliance check for 85%; the run ends
\* pending
C6_Witness ==
    /\ variant = "gov"
    /\ pc = "END"
    /\ state.requires_approval
    /\ state.approval_status = "pending"
    /\ llm_log[1].kind = "text"
    /\ state.tool_output.proposed_ratio = Some(8500)
    /\ state.tool_output.recommendation = Some(7600)

\* C7: every process_approval result is the pending trace plus one step;
\* "approved" appends Approved and confirms the stored recommendation (at
\* most max_allowed) as it prints, "rejected" appends Rejected and says the
\* operation is cancelled.
C7_ResolutionResponse ==
    \A i \in 1..Len(resolutions) :
        LET r == resolutions[i]
            n == Len(state.thinking_steps)
        IN  /\ Len(r.steps) = n + 1
            /\ SubSeq(r.steps, 1, n) = state.thinking_steps
            /\ r.decision = "approved" =>
                /\ r.steps[n + 1] = GovStep("Approved", "success", FALSE)
                /\ r.response =
                     Resp("approved",
                          <<Pct0(TheVal(state.tool_output.recommendation)),
                            Pct0(TheVal(state.tool_output.max_allowed))>>)
                /\ TheVal(state.tool_output.recommendation) <=
                     TheVal(state.tool_output.max_allowed)
            /\ r.decision = "rejected" =>
                /\ r.steps[n + 1] = GovStep("Rejected", "error", FALSE)
                /\ r.response = Resp("rejected", <<>>)

\* C7 witness: the pending 85% request is approved and the answer prints 76%
C7_Witness ==
    /\ Len(resolutions) = 1
    /\ resolutions[1].decision = "approved"
    /\ resolutions[1].response = Resp("approved", <<76, 80>>)
    /\ state.tool_output.proposed_ratio = Some(8500)

\* C8 (as the specification states it): a second process_approval on the
\* same pending state is no second Approved or Rejected answer.
C8_SecondResolutionRefused ==
    Len(resolutions) >= 2 =>
        resolutions[2].response.kind \notin {"approved", "rejected"}

\* C8 failing run: the pending state approved once and approved again
C8_ResolvedTwice ==
    /\ Len(resolutions) = 2
    /\ resolutions[1].decision = "approved"
    /\ resolutions[2] = resolutions[1]

\* C9: node_analyze_with_tools does not raise; after it the trace holds
\* exactly one Tool Selection step, selected_tool and tool_input are set, and
\* when the call, the fence stripping, the parsing or the field access fails
\* they are the keyword heuristic's choice for the user's text, otherwise
\* the reply's.
C9_ExtractorNeverRaises ==
    (variant = "gov" /\ visited # <<>>) =>
        /\ visited[1] = "analyze"
        /\ Len(visited) = 1 => (~raised /\ pc = "execute")
        /\ Len(state.thinking_steps) >= 1
        /\ state.thinking_steps[1].node = "Tool Selection"
        /\ Cardinality({i \in 1..Len(state.thinking_steps) :
                state.thinking_steps[i].node = "Tool Selection"}) = 1
        /\ Len(visited) = 1 => Len(state.thinking_steps) = 1
        /\ state.selected_tool # ""
        /\ LET reply == llm_log[1].reply
               failed == \/ reply.kind \in {"raise", "null"}
                         \/ reply.fence = "other"
                         \/ reply.payload.type \in {"garbage", "array"}
           IN  IF failed
               THEN /\ state.thinking_steps[1].status = "warning"
                    /\ state.selected_tool =
                         FallbackSelection(state.user_query).selected_tool
                    /\ state.tool_input =
                         FallbackSelection(state.user_query).tool_input
               ELSE /\ state.thinking_steps[1].status = "success"
                    /\ state.selected_tool =
                         (IF reply.payload.selected_tool = "absent"
                          THEN "get_risk_metrics"
                          ELSE reply.payload.selected_tool)
                    /\ state.tool_input = reply.payload.tool_params

\* C9 witness: the reply is no JSON and the text asks for an 85% hedge: the
\* heuristic selects the compliance check with ratio 0.85
C9_Witness ==
    /\ variant = "gov"
    /\ Len(visited) = 1
    /\ llm_log[1].reply.kind = "text"
    /\ llm_log[1].reply.payload.type = "garbage"
    /\ state.user_query = ScenarioA
    /\ state.selected_tool = "check_hedge_compliance"
    /\ state.tool_input.ratio = J("num", 8500)
    /\ state.thinking_steps = <<GovStep("Tool Selection", "warning", FALSE)>>

\* C10: when the chat-completion call of RESPOND raises, in each variant,
\* no exception leaves the node, the run has returned, final_response is the
\* apology or error text, the last trace entry is Respond with status error,
\* and run_agent returned that text with the whole trace, one entry per node
\* executed.
C10_RespondFailureContained ==
    (RespondRan /\ llm_log # <<>>
     /\ llm_log[Len(llm_log)] = RespondCall("raise")) =>
        /\ ~raised
        /\ Terminal
        /\ state.final_response.kind \in {"apology", "error_text"}
        /\ RespTruthy(state.final_response)
        /\ state.thinking_steps[Len(state.thinking_steps)].node = "Respond"
        /\ state.thinking_steps[Len(state.thinking_steps)].status = "error"
        /\ run_result.response = state.final_response
        /\ run_result.steps = state.thinking_steps
        /\ Len(run_result.steps) = Len(visited)

\* C10 witness: the manual loop after a refinement, the completion call
\* raising
C10_Witness ==
    /\ variant = "manual"
    /\ pc = "done"
    /\ llm_log = <<RespondCall("raise")>>
    /\ visited = <<"analyze", "calculate", "audit", "refine", "audit",
                   "respond">>
    /\ run_result.response = Resp("apology", <<>>)

\* the locals of the run that executes
Running ==
    Run(variant, auditor, pc, state, step_count, visited, raised, llm_log,
        run_result, resolutions)
\* r's trace holds one step per node r executed, and once r has returned,
\* its result and trace are those of the same run with the process to itself
RunsAsAlone(r) ==
    /\ Len(r.state.thinking_steps) = Len(r.visited)
    /\ r.pc \in {"done", "END"} =>
        /\ r.run_result = Solo(r)
        /\ r.state.thinking_steps = Solo(r).steps

C12_ContextNeverWritten ==
    /\ [][state'.ctx = state.ctx]_vars
    /\ [](variant = "gov" /\ pc = "END" /\ state.requires_approval =>
            \A decision \in {"approved", "rejected"} :
                node_handle_approval(
                    [state EXCEPT !.approval_status = decision]).ctx = state.ctx)

\* a governed turn whose tool read the full context has been resolved
C12_Witness ==
    /\ variant = "gov"
    /\ state.ctx = CtxKeys
    /\ Count("execute") = 1
    /\ state.tool_output.status = "FAIL"
    /\ resolutions # <<>>

\* the node chosen to run next
NextNode == IF variant = "manual" THEN state.current_node ELSE pc

\* C13: in agent_logic and agent_logic_lg, when ANALYZE has just executed the
\* node to run next is CALCULATE if the intent is hedge, stress or limits and
\* RESPOND if it is a general query.
C13_AnalyzeRouting ==
    AutoRefining /\ visited # <<>> /\ visited[Len(visited)] = "analyze" =>
        NextNode = IF state.intent \in {"hedge", "stress", "limits"}
                   THEN "calculate" ELSE "respond"

\* the manual loop has sent a limit query from ANALYZE to RESPOND
C13_LimitsSkipCalculate ==
    /\ variant = "manual"
    /\ visited = <<"analyze">>
    /\ state.intent = "limits"
    /\ state.current_node = "respond"

\* the request of this run has been interpreted and is not a hedge request
NotHedgeRequest ==
    /\ Count("analyze") >= 1
    /\ ~raised
    /\ IF variant = "gov" THEN state.selected_tool # "check_hedge_compliance"
       ELSE state.intent # "hedge"
\* the trace holds an Audit step
AuditRecorded ==
    \E i \in 1..Len(state.thinking_steps) : state.thinking_steps[i].node = "Audit"

\* C14: in every variant, a stress, limit or general request is never
\* audited: the audit node does not execute, the trace holds no Audit step,
\* and audit_result stays empty.
C14_OnlyHedgeAudited ==
    NotHedgeRequest =>
        /\ Count("audit") = 0
        /\ ~AuditRecorded
        /\ variant = "manual" => state.audit_result = NoAudit
        /\ variant = "lg" => state.audit_result = lg_NoAudit

\* the governed graph has run its audit node on a stress test
C14_StressAudited ==
    /\ variant = "gov"
    /\ state.selected_tool = "run_stress_test"
    /\ visited = <<"analyze", "execute", "audit">>
    /\ state.thinking_steps[3] = GovStep("Audit", "success", FALSE)

\* the two loops with intents leave a stress request unaudited
C14_IntentVariantsSkipAudit ==
    AutoRefining /\ NotHedgeRequest =>
        /\ Count("audit") = 0
        /\ ~AuditRecorded
        /\ state.audit_result.status = "None"

\* AUDIT was the last node executed
AuditRan == visited # <<>> /\ visited[Len(visited)] = "audit"

\* C15: in agent_logic and agent_logic_lg, the node after AUDIT is RESPOND
\* when the status is PASS, REFINE when it is FAIL and iteration < 3, and
\* RESPOND when it is FAIL and iteration >= 3; the iteration counter never
\* exceeds 3 and AUDIT executes at most 4 times in a run.
C15_AuditRouting ==
    AutoRefining =>
        /\ state.iteration <= 3
        /\ Count("audit") <= 4
        /\ AuditRan =>
            /\ state.audit_result.status \in {"PASS", "FAIL"}
            /\ state.audit_result.status = "PASS" => NextNode = "respond"
            /\ state.audit_result.status = "FAIL" /\ state.iteration < 3
                    => NextNode = "refine"
            /\ state.audit_result.status = "FAIL" /\ state.iteration >= 3
                    => NextNode = "respond"

\* the fourth AUDIT of a run has failed with the counter at 3, and RESPOND
\* is next
C15_Witness ==
    /\ variant = "lg"
    /\ AuditRan
    /\ Count("audit") = 4
    /\ state.iteration = 3
    /\ state.audit_result.status = "FAIL"
    /\ pc = "respond"

\* REFINE was the last node executed
RefineRan == visited # <<>> /\ visited[Len(visited)] = "refine"

\* C16: in agent_logic and agent_logic_lg, every execution of REFINE adds
\* exactly 1 to iteration and puts audit_result.recommendation in
\* params.hedge_ratio; after REFINE the run is not over, AUDIT is the node to
\* run, and the next node executed is AUDIT.
C16_RefineThenAudit ==
    /\ [][AutoRefining /\ visited' = Append(visited, "refine") =>
            /\ state'.iteration = state.iteration + 1
            /\ Truthy(state.audit_result.recommendation)
            /\ state'.params.hedge_ratio = state.audit_result.recommendation
            /\ NextNode' = "audit"]_vars
    /\ [][AutoRefining /\ RefineRan => visited' = Append(visited, "audit")]_vars
    /\ [](AutoRefining /\ RefineRan =>
            /\ ~raised
            /\ NextNode = "audit"
            /\ variant = "manual" => pc = "loop" /\ step_count < max_steps)

\* Scenario A has been refined from 85% to 76%
C16_Witness ==
    /\ AutoRefining
    /\ RefineRan
    /\ state.user_query = ScenarioA
    /\ state.iteration = 1
    /\ state.params.hedge_ratio = Some(7600)
    /\ state.audit_result.recommendation = Some(7600)

\* C17: a run of the manual loop executes at most 10 node handlers, whatever
\* the completions are; a run that uses up the budget without a response
\* returns the fixed text "Unable to generate response" with the trace, and
\* no run goes on after its tenth handler.
C17_StepBudget ==
    variant = "manual" =>
        /\ Len(visited) <= max_steps
        /\ step_count <= max_steps
        /\ ~raised => step_count = Len(visited)
        /\ step_count = max_steps => pc = "done"
        /\ pc = "done" /\ ~RespTruthy(state.final_response) =>
            /\ step_count = max_steps
            /\ ~raised
            /\ run_result.response = Resp("unable", <<>>)
            /\ run_result.steps = state.thinking_steps
            /\ Len(run_result.steps) = max_steps

\* the budget ran out on empty completions and the fixed text was returned
C17_Witness ==
    /\ variant = "manual"
    /\ pc = "done"
    /\ Len(visited) = 10
    /\ ~RespTruthy(state.final_response)
    /\ run_result.response = Resp("unable", <<>>)
    /\ Count("respond") >= 5

\* the reply to the tool selector does not parse, or what it parses to is
\* not a selection of a known tool with an object of well-typed parameters
Malformed(reply) ==
    \/ IsRaise(SelectTool(reply))
    \/ /\ ~IsRaise(SelectTool(reply))
       /\ LET result == SelectTool(reply)
          IN  \/ result.selected_tool \notin TOOL_MAP
              \/ result.tool_params.shape # "dict"
              \/ /\ result.selected_tool = "check_hedge_compliance"
                 /\ \/ result.tool_params.ratio.t \in {"null", "str"}
                    \/ result.tool_params.hedge_ratio.t \in {"null", "str"}
                    \/ /\ result.tool_params.ratio.t = "absent"
                       /\ result.tool_params.hedge_ratio.t = "absent"

\* C18: in agent_logic_gov, whenever the model's reply to the tool selector
\* fails to parse or does not have the expected shape, the tool and the
\* parameters the run goes on with are those of the keyword fallback, and no
\* exception leaves the run.
C18_MalformedReplyFallsBack ==
    variant = "gov" /\ visited # <<>> /\ Malformed(llm_log[1].reply) =>
        /\ state.selected_tool = FallbackSelection(state.user_query).selected_tool
        /\ state.tool_input = FallbackSelection(state.user_query).tool_input
        /\ ~raised

\* a tool name the model made up has been handed to the tool executor
C18_UnknownToolExecuted ==
    /\ variant = "gov"
    /\ state.selected_tool = "make_trade"
    /\ visited = <<"analyze", "execute">>
    /\ state.thinking_steps[1] = GovStep("Tool Selection", "success", FALSE)
    /\ state.thinking_steps[2] = GovStep("Execute", "error", FALSE)

\* a reply that does not parse does fall back to the keyword rules
C18_UnparsedReplyFallsBack ==
    variant = "gov" /\ visited # <<>> /\ IsRaise(SelectTool(llm_log[1].reply)) =>
        /\ state.selected_tool = FallbackSelection(state.user_query).selected_tool
        /\ state.tool_input = FallbackSelection(state.user_query).tool_input
        /\ state.thinking_steps[1] = GovStep("Tool Selection", "warning", FALSE)

\* C19: in the deterministic extractor a default (hedge ratio 0.70, rate
\* shock 100bp, equity shock -15%) is used only when the text holds no
\* matching number; a figure in the text, 0% and 0bp included, is the
\* extracted parameter, and it is the ratio the governed executor checks
\* after a fallback.
C19_FigureExtracted ==
    /\ AutoRefining /\ visited # <<>> /\ state.intent = "hedge"
            /\ Count("refine") = 0 =>
            state.params.hedge_ratio =
                Some(Get(_extract_percentage(state.user_query), 7000))
    /\ AutoRefining /\ visited # <<>> /\ state.intent = "stress" =>
        /\ state.params.rate_bp =
                Some(Get(_extract_bp(state.user_query), 100))
        /\ state.params.equity_pct =
                Some(Get(_extract_equity_shock(state.user_query),
                                     0 - 1500))
    /\ /\ variant = "gov"
       /\ Count("execute") = 1
       /\ ~raised
       /\ state.thinking_steps[1] = GovStep("Tool Selection", "warning", FALSE)
       /\ state.selected_tool = "check_hedge_compliance"
       => state.tool_output.proposed_ratio =
            Some(Get(_extract_percentage(state.user_query), 7000))

\* "set the hedge ratio to 0%" has been analysed into a 70% proposal
C19_ZeroPercentDefaulted ==
    /\ variant = "manual"
    /\ visited = <<"analyze">>
    /\ state.user_query.pct = Some(0)
    /\ state.intent = "hedge"
    /\ state.params.hedge_ratio = Some(7000)

\* a figure other than zero is extracted as the claim says
C19_NonZeroFigureExtracted ==
    /\ AutoRefining /\ visited # <<>> /\ state.intent = "hedge"
            /\ Count("refine") = 0 /\ state.user_query.pct \notin {None, Some(0)}
        => state.params.hedge_ratio = Some(TheVal(state.user_query.pct) * 100)
    /\ AutoRefining /\ visited # <<>> /\ state.intent = "stress"
            /\ state.user_query.bp \notin {None, Some(0)}
        => state.params.rate_bp = state.user_query.bp

\* the calculation of this request raises: a key it reads is not in ctx
CalculateRaises ==
    \/ state.intent = "stress" /\ ~(StressKeys \subseteq state.ctx)
    \/ variant = "lg" /\ state.intent = "limits" /\ "limits_df" \notin state.ctx

\* C20: in agent_logic and agent_logic_lg, when CALCULATE raises the error
\* is caught and the Calculate step is recorded with status error, exactly
\* then; in such a run CALCULATE executes once, AUDIT and REFINE never
\* execute, every node after CALCULATE is RESPOND, and calculation_result
\* holds no computed result.
C20_CalculateFailureToRespond ==
    AutoRefining /\ Count("calculate") >= 1 =>
        /\ ~raised
        /\ CalculateRaises <=> LastStatus("Calculate") = "error"
        /\ CalculateRaises =>
            /\ Count("calculate") = 1
            /\ Count("audit") = 0
            /\ Count("refine") = 0
            /\ visited[2] = "calculate"
            /\ \A i \in 3..Len(visited) : visited[i] = "respond"
            /\ Len(visited) = 2 => NextNode = "respond"
            /\ state.calculation_result.type \in {"None", "error"}
            /\ state.calculation_result.proposed_ratio = None

\* a stress test on a context without liability_dur has failed in CALCULATE
\* and been answered
C20_Witness ==
    /\ variant = "manual"
    /\ pc = "done"
    /\ state.intent = "stress"
    /\ "liability_dur" \notin state.ctx
    /\ visited = <<"analyze", "calculate", "respond">>
    /\ LastStatus("Calculate") = "error"
    /\ state.calculation_result = NoCalc

\* the node that records a ThinkingStep under this name
NodeOfStep(name) ==
    CASE name \in {"Analyze", "Tool Selection"} -> "analyze"
      [] name = "Calculate" -> "calculate"
      [] name = "Execute" -> "execute"
      [] name = "Audit" -> "audit"
      [] name = "Refine" -> "refine"
      [] name = "Respond" -> "respond"
      [] OTHER -> "handle_approval"
\* the node executions that returned: an execution that raised ends the run
\* without a trace
Completed == IF raised THEN SubSeq(visited, 1, Len(visited) - 1) ELSE visited

C22_LimitOfHedgeType ==
    LET Limit(type) == CASE type = "fx" -> 9000
                         [] type = "equity" -> 5000
                         [] OTHER -> 8000
        \* the hedge type the request names; duration when it names none
        requested == IF "fx" \in state.user_query.kws THEN "fx"
                     ELSE IF "equity" \in state.user_query.kws THEN "equity"
                     ELSE "duration"
    IN  /\ AutoRefining /\ Count("audit") >= 1 =>
            state.audit_result.max_allowed = Some(Limit(requested))
        /\ /\ variant = "gov"
           /\ Count("execute") = 1
           /\ ~raised
           /\ state.selected_tool = "check_hedge_compliance"
           /\ state.tool_output.status \in {"PASS", "FAIL"}
           => state.tool_output.max_allowed =
                Some(Limit(IF state.tool_input.hedge_type = "absent"
                           THEN requested ELSE state.tool_input.hedge_type))

\* an fx hedge to 85%, within the fx limit of 90%, has failed the audit
\* against the duration limit
C22_FxAuditedAsDuration ==
    /\ variant = "lg"
    /\ state.user_query = FxRequest
    /\ visited = <<"analyze", "calculate", "audit">>
    /\ state.audit_result.status = "FAIL"
    /\ state.audit_result.max_allowed = Some(8000)

\* the limit tables and the look-up are as the claim says: given the hedge
\* type, each of the auditors uses that type's limit
C22_TablesAsClaimed ==
    /\ \A type \in HedgeTypes :
        LIMITS(type) = COMPLIANCE_LIMITS(type)
    /\ LIMITS("duration") = 8000 /\ LIMITS("fx") = 9000
    /\ LIMITS("equity") = 5000 /\ LIMITS("commodity") = 8000
    /\ variant = "gov" /\ Count("execute") = 1 /\ ~raised
            /\ state.selected_tool = "check_hedge_compliance"
            /\ state.tool_output.status \in {"PASS", "FAIL"}
        => state.tool_output.max_allowed =
            Some(COMPLIANCE_LIMITS(IF state.tool_input.hedge_type = "absent"
                                   THEN "duration"
                                   ELSE state.tool_input.hedge_type))

\* C23: every audit result, in each variant, carries a recommendation if
\* and only if its status is FAIL: the result stored by the audit of a run,
\* the output of the governed compliance check, and the result of each of
\* the three audit functions on ratios below, at and above every limit.
C23_RecommendationIffFail ==
    LET Iff(r) == /\ r.status \in {"PASS", "FAIL"}
                  /\ r.recommendation # None <=> r.status = "FAIL"
        ratios == {0 - 1000, 0, 4750, 5000, 5001, 8000, 8001, 9000, 9001, 15000}
    IN  /\ AutoRefining /\ Count("audit") >= 1 => Iff(state.audit_result)
        /\ AutoRefining /\ Count("audit") = 0 =>
                state.audit_result.recommendation = None
        /\ variant = "gov" /\ state.tool_output.status # "None" =>
                Iff(state.tool_output)
        /\ variant = "gov" /\ state.tool_output.status = "None" =>
                state.tool_output.recommendation = None
        /\ \A ratio \in ratios :
            /\ Iff(manual_audit(ratio, max_hedge_ratio))
            /\ \A type \in HedgeTypes :
                /\ Iff(check_hedge_compliance(ratio, type))
                /\ Iff(_execute_check_hedge_compliance(ratio, type))

\* Scenario A after its second audit: the FAIL carried 76%, the PASS that
\* replaced it carries nothing
C23_Witness ==
    /\ variant = "lg"
    /\ auditor = "real"
    /\ state.user_query = ScenarioA
    /\ Count("audit") = 2
    /\ state.audit_result.status = "PASS"
    /\ state.audit_result.recommendation = None
    /\ state.params.hedge_ratio = Some(7600)

\* C24: every hedge proposal that reaches the auditor carries a ratio in
\* [0,1]: neither a figure of the text such as "150%" nor a ratio returned
\* by the model is audited when it lies outside that range.
C24_AuditedRatioInRange ==
    /\ variant = "manual" /\ Count("audit") >= 1 =>
            TheVal(state.audit_result.proposed) \in 0..10000
    /\ variant = "lg" /\ Count("audit") >= 1 =>
            TheVal(state.audit_result.proposed_ratio) \in 0..10000
    /\ variant = "gov" /\ state.tool_output.status \in {"PASS", "FAIL"} =>
            TheVal(state.tool_output.proposed_ratio) \in 0..10000

\* "raise the hedge ratio to 150%" has been audited as a proposal of 150%
C24_OverUnityAudited ==
    /\ variant = "manual"
    /\ state.user_query.pct = Some(150)
    /\ visited = <<"analyze", "calculate", "audit">>
    /\ state.audit_result.status = "FAIL"
    /\ state.audit_result.proposed = Some(15000)

\* C25: in agent_logic and agent_logic_lg, whenever the ratio before a
\* REFINE exceeded max_allowed, the ratio after that REFINE is strictly
\* smaller; with the real auditor that is every REFINE.
C25_RefineDecreases ==
    /\ [][AutoRefining /\ visited' = Append(visited, "refine")
            /\ TheVal(state.params.hedge_ratio) > TheVal(state.audit_result.max_allowed)
          => TheVal(state'.params.hedge_ratio) < TheVal(state.params.hedge_ratio)]_vars
    /\ [][AutoRefining /\ visited' = Append(visited, "refine") /\ auditor = "real"
          => /\ TheVal(state.params.hedge_ratio) > TheVal(state.audit_result.max_allowed)
             /\ TheVal(state'.params.hedge_ratio) <= TheVal(state.audit_result.max_allowed)]_vars

\* a proposal of 150% has been refined down to 76%
C25_Witness ==
    /\ variant = "manual"
    /\ auditor = "real"
    /\ RefineRan
    /\ state.audit_result.proposed = Some(15000)
    /\ state.audit_result.max_allowed = Some(8000)
    /\ state.params.hedge_ratio = Some(7600)

\* C27: RESPOND is terminal in the manual loop: in every run of
\* agent_logic.run_agent RESPOND executes at most once, no node executes
\* after it, and the run has returned once it has executed, whatever the
\* completion was.
C27_RespondTerminal ==
    variant = "manual" =>
        /\ Count("respond") <= 1
        /\ \A i \in 1..Len(visited) : visited[i] = "respond" => i = Len(visited)
        /\ Count("respond") = 1 => pc = "done"

\* a general question answered by an empty completion: RESPOND has run
\* twice and the loop has not returned
C27_RespondRanTwice ==
    /\ variant = "manual"
    /\ pc = "loop"
    /\ visited = <<"analyze", "respond", "respond">>
    /\ llm_log[1].kind = "empty"
    /\ ~RespTruthy(state.final_response)

\* a completion with text ends the manual run at its first RESPOND
C27_TextCompletionEnds ==
    variant = "manual" /\ Count("respond") >= 1 /\ llm_log[1].kind \in {"text", "raise"} =>
        /\ Count("respond") = 1
        /\ RespondRan
        /\ pc = "done"

\* the Audit step node_audit records for a check_hedge_compliance request
\* that needs no approval: status success, message "Compliance Passed"
CompliancePassedRecorded ==
    /\ variant = "gov"
    /\ state.selected_tool = "check_hedge_compliance"
    /\ Count("audit") = 1
    /\ state.thinking_steps[3] = GovStep("Audit", "success", FALSE)

\* C28: in the governed variant the Audit step "Compliance Passed" is
\* recorded for a check_hedge_compliance request only when the check ran
\* and returned PASS; after a failed execution (empty tool_output) the
\* request is not reported as compliant.
C28_PassedOnlyOnPass ==
    CompliancePassedRecorded =>
        /\ state.thinking_steps[2] = GovStep("Execute", "success", FALSE)
        /\ state.tool_output.status = "PASS"

\* the compliance check raised on a ratio given as a string, and the audit
\* recorded the request as passed
C28_FailedCheckReportedPassed ==
    /\ CompliancePassedRecorded
    /\ state.tool_input.shape = "dict"
    /\ state.tool_input.ratio.t = "str"
    /\ state.thinking_steps[2] = GovStep("Execute", "error", FALSE)
    /\ state.tool_output = EmptyOutput
    /\ ~state.requires_approval

\* when the check did run, the recorded step agrees with its status
C28_StepAgreesWithCheck ==
    variant = "gov" /\ state.selected_tool = "check_hedge_compliance"
            /\ Count("audit") = 1 /\ state.tool_output.status # "None" =>
        /\ state.tool_output.status = "PASS"
                <=> state.thinking_steps[3] = GovStep("Audit", "success", FALSE)
        /\ state.tool_output.status = "FAIL"
                <=> state.thinking_steps[3] = GovStep("Audit", "warning", TRUE)

-----------------------------------------------------------------------------
(* The governed console: tabs/tab_ai_copilot_gov.py *)

\* turns submitted in one session before the chat is cleared
MaxTurns == 2

\* what the user submits, and what the two chat-completion calls do
ConsoleTexts ==
    {ScenarioA, FxRequest, Text({"stress"}, None, Some(200), None),
     Text({}, None, None, None)}
ConsoleReplies ==
    PairReplies
    \cup {Reply("text", "none", Payload("object", "<list>", EmptyDict)),
          Reply("text", "none",
                Payload("object", "check_hedge_compliance",
                        Params("dict", J("num", 7600), Absent, "absent")))}

\* an entry of gov_chat_history
Message(role, content) == [role |-> role, content |-> content]

\* final_state = {}: every key is read from it through .get with the
\* defaults of a fresh state
NoFinalState == gov_initial_state(Text({}, None, None, None), {})

\* the node that runs k-th in the graph, applied to the state before it
stream_node(k, s, reply, outcome) ==
    CASE k = 1 -> node_analyze_with_tools(s, reply)
      [] k = 2 -> node_execute_tool(s)
      [] k = 3 -> gov_node_audit(s)
      [] k = 4 -> gov_node_respond(s, outcome)

RECURSIVE graph_stream(_, _, _, _)
\* graph.stream(initial_state) after the events given: the states the graph
\* streams, one per node, in order; "raised" when an exception ended the
\* stream before the last node
graph_stream(events, s, reply, outcome) ==
    IF Len(events) = 4
    THEN [events |-> events, raised |-> FALSE]
    ELSE TheVal({IF IsRaise(out)
                 THEN [events |-> events, raised |-> TRUE]
                 ELSE graph_stream(Append(events, out), out, reply, outcome) :
                    out \in {stream_node(Len(events) + 1, s, reply, outcome)}})

run_agent_stream(user_query, ctx, reply, outcome) ==
    graph_stream(<<>>, gov_initial_state(user_query, ctx), reply, outcome)

\* is_final = (node_name == "respond" and state.get("final_response"))
is_final(stream, i) == i = 4 /\ RespTruthy(stream.events[i].final_response)

\* the rest of _process_user_input_with_status, once the stream has ended
after_stream(ss, user_input, stream) ==
    LET n == Len(stream.events)
        history == Append(ss.gov_chat_history, Message("user", user_input))
        streamed == IF n = 0 THEN <<>> ELSE stream.events[n].thinking_steps
        requires_approval == \E i \in 1..n : stream.events[i].requires_approval
        final == n = 4 /\ is_final(stream, 4)
        final_response ==
            IF final THEN stream.events[4].final_response ELSE Resp("empty", <<>>)
        final_state == IF final THEN stream.events[4] ELSE NoFinalState
    IN  IF stream.raised
        THEN [gov_chat_history |->
                Append(history, Message("assistant", Resp("console_error", <<>>))),
              gov_thinking_steps |->
                Append(streamed, GovStep("Error", "error", FALSE)),
              gov_pending_approval |-> ss.gov_pending_approval]
        ELSE [gov_chat_history |->
                Append(history, Message("assistant", final_response)),
              gov_thinking_steps |-> streamed,
              gov_pending_approval |->
                IF requires_approval
                THEN Some([proposed_ratio |->
                               Get(final_state.tool_output.proposed_ratio, 0),
                           max_allowed |->
                               Get(final_state.tool_output.max_allowed, 0),
                           recommendation |->
                               Get(final_state.tool_output.recommendation, 0),
                           reason |-> final_state.approval_reason,
                           state |-> final_state])
                ELSE ss.gov_pending_approval]

\* _process_user_input_with_status: the whole handler, from the user message
\* to the rerun
_process_user_input_with_status(ss, user_input, ctx, reply, outcome) ==
    TheVal({after_stream(ss, user_input, stream) :
                stream \in {run_agent_stream(user_input, ctx, reply, outcome)}})

\* _handle_approval(status): resolves the pending approval, records the
\* answer and the steps process_approval returned, and forgets the approval
_handle_approval(ss, status) ==
    LET pending == TheVal(ss.gov_pending_approval)
        result == process_approval(status, pending.state)
    IN  [gov_chat_history |->
            Append(ss.gov_chat_history, Message("assistant", result.response)),
         gov_thinking_steps |-> ss.gov_thinking_steps \o result.steps,
         gov_pending_approval |-> None]

\* user messages in the chat history
Turns(ss) ==
    Cardinality({i \in 1..Len(ss.gov_chat_history) :
                    ss.gov_chat_history[i].role = "user"})

\* a fault: the quick-action buttons and the chat input stay enabled while
\* an approval is pending
SubmitTurn_while_pending ==
    /\ Turns(session_state) < MaxTurns
    /\ \E q \in ConsoleTexts, reply \in ConsoleReplies, outcome \in {"text", "null"} :
        session_state' =
            _process_user_input_with_status(session_state, q, CtxKeys, reply, outcome)
    /\ _compiled_graph' = get_compiled_graph(_compiled_graph, "gov")
    /\ UNCHANGED <<variant, auditor, pc, state, step_count, visited, raised,
                   llm_log, run_result, resolutions, peer>>

\* A quick-action button or the chat input starts a turn: both are disabled
\* (the chat input is replaced by a disabled one) while an approval is pending.
SubmitTurn ==
    /\ session_state.gov_pending_approval = None
    /\ Turns(session_state) < MaxTurns
    /\ \E q \in ConsoleTexts, reply \in ConsoleReplies, outcome \in {"text", "null"} :
        session_state' =
            _process_user_input_with_status(session_state, q, CtxKeys, reply, outcome)
    /\ _compiled_graph' = get_compiled_graph(_compiled_graph, "gov")
    /\ UNCHANGED <<variant, auditor, pc, state, step_count, visited, raised,
                   llm_log, run_result, resolutions, peer>>

\* The approval card is rendered only while an approval is pending.
Approve ==
    /\ session_state.gov_pending_approval # None
    /\ session_state' = _handle_approval(session_state, "approved")
    /\ UNCHANGED <<variant, auditor, pc, state, step_count, visited, raised,
                   llm_log, run_result, resolutions, peer, _compiled_graph>>

Reject ==
    /\ session_state.gov_pending_approval # None
    /\ session_state' = _handle_approval(session_state, "rejected")
    /\ UNCHANGED <<variant, auditor, pc, state, step_count, visited, raised,
                   llm_log, run_result, resolutions, peer, _compiled_graph>>

\* The clear button: _render_chat_section returns before it draws the button
\* while an approval is pending.
Clear ==
    /\ session_state.gov_pending_approval = None
    /\ session_state' = NoSession
    /\ UNCHANGED <<variant, auditor, pc, state, step_count, visited, raised,
                   llm_log, run_result, resolutions, peer, _compiled_graph>>

\* The console runs each turn inside one handler, so the variables of the
\* turn in flight stay at their initial values.
ConsoleInit ==
    /\ variant = "gov"
    /\ auditor = "real"
    /\ state = gov_initial_state(ScenarioA, CtxKeys)
    /\ pc = "analyze"
    /\ step_count = 0
    /\ visited = <<>>
    /\ raised = FALSE
    /\ llm_log = <<>>
    /\ run_result = NotReturned
    /\ resolutions = <<>>
    /\ peer = NoPeer
    /\ _compiled_graph = NotCompiled
    /\ session_state = NoSession

ConsoleNext ==
    \/ SubmitTurn
    \/ Approve
    \/ Reject
    \/ Clear

ConsoleSpec == ConsoleInit /\ [][ConsoleNext]_vars

-----------------------------------------------------------------------------
(* Claims about the governed console *)

\* the step node_handle_approval records for a decision
ResolutionSteps ==
    {GovStep("Approved", "success", FALSE), GovStep("Rejected", "error", FALSE)}

\* C30: after an approval is resolved in the governed console, the stored
\* trace gov_thinking_steps consists of the steps of the suspended turn, each
\* exactly once and in their original order, followed by exactly one Approved
\* or Rejected step.
C30_ResolvedTraceExact ==
    [][session_state.gov_pending_approval # None
            /\ session_state'.gov_pending_approval = None =>
        \E last \in ResolutionSteps :
            session_state'.gov_thinking_steps =
                Append(TheVal(session_state.gov_pending_approval).state.thinking_steps,
                       last)]_vars

\* the approval of the 85% request is resolved and the stored trace holds
\* the four steps of the suspended turn twice before the Approved step
C30_SuspendedStepsTwice ==
    /\ session_state.gov_pending_approval = None
    /\ Len(session_state.gov_chat_history) = 3
    /\ Len(session_state.gov_thinking_steps) = 9
    /\ SubSeq(session_state.gov_thinking_steps, 1, 4)
            = SubSeq(session_state.gov_thinking_steps, 5, 8)
    /\ session_state.gov_thinking_steps[4] = GovStep("Respond", "pending", TRUE)
    /\ session_state.gov_thinking_steps[9] = GovStep("Approved", "success", FALSE)

\* C29: in the governed console, while an approval is pending no new turn
\* can start and the chat cannot be cleared: every step out of a state with
\* a pending approval is an approve or a reject, sets gov_pending_approval
\* back to None and appends exactly one assistant message to the chat
\* history, adding no user message and keeping the earlier messages.
C29_PendingOnlyResolved ==
    [][session_state.gov_pending_approval # None =>
        LET before == session_state.gov_chat_history
            after == session_state'.gov_chat_history
        IN  /\ session_state'.gov_pending_approval = None
            /\ Len(after) = Len(before) + 1
            /\ SubSeq(after, 1, Len(before)) = before
            /\ after[Len(after)].role = "assistant"
            /\ after[Len(after)].content.kind \in {"approved", "rejected"}
            /\ Turns(session_state') = Turns(session_state)]_vars

\* the second turn of a session was suspended and then rejected: the chat
\* holds its two turns and the one message of the rejection, nothing pending
C29_Witness ==
    /\ session_state.gov_pending_approval = None
    /\ Turns(session_state) = 2
    /\ Len(session_state.gov_chat_history) = 5
    /\ session_state.gov_chat_history[4].content.kind = "approval_prompt"
    /\ session_state.gov_chat_history[5] = Message("assistant", Resp("rejected", <<>>))

C26_ArtifactKeptUntilResolved ==
    /\ [][session_state.gov_pending_approval # None =>
            session_state'.gov_pending_approval
                \in {session_state.gov_pending_approval, None}]_vars
    /\ [](session_state.gov_pending_approval # None =>
            LET pending == TheVal(session_state.gov_pending_approval)
            IN  /\ AwaitsApproval(pending.state)
                /\ pending.state.thinking_steps = session_state.gov_thinking_steps)

=============================================================================
